---- MODULE Spec2Model ----
(***************************************************************************)
(* A model of the picture-book authoring tool: the App component           *)
(* (src/src/App.tsx), the Home and AIGenerator components                  *)
(* (src/unnamed/part_001), the import/export helpers (src/unnamed/part_000)*)
(* and the Gemini client (src/unnamed/part_002).                           *)
(*                                                                         *)
(* JavaScript values are modelled as tagged records, asynchronous handlers *)
(* as one action per stretch of code between two awaits.                   *)
(***************************************************************************)
EXTENDS Integers, Sequences, FiniteSets, TLC

(***************************************************************************)
(* Bounds of the model (not program constants).                            *)
(***************************************************************************)
\* runs are explored for the page counts of the selector that are <= MaxPageCount
MaxPageCount == 3
\* the clock advances at most this many milliseconds past StartTime
MaxTicks == 1
\* at most this many reference-image files are picked, over all uploads
MaxPickedFiles == 2
\* at most this many candidate entries in the books array of an import file
MaxFileBooks == 2
\* at most this many imports are started
MaxImports == 2

(***************************************************************************)
(* JavaScript values.                                                      *)
(***************************************************************************)
JUndefined == [t |-> "undefined"]
JNull == [t |-> "null"]
JStr(s) == [t |-> "string", v |-> s]
JNum(n) == [t |-> "number", v |-> n]
JArr(s) == [t |-> "array", v |-> s]
JObj(r) == [t |-> "object", v |-> r]

\* typeof x
Typeof(x) ==
  CASE x.t = "undefined" -> "undefined"
    [] x.t = "string" -> "string"
    [] x.t = "number" -> "number"
    [] OTHER -> "object"

\* Array.isArray(x)
IsArray(x) == x.t = "array"

\* x.f : undefined when x is no object or has no such property;
\* reading a property of null or undefined throws (callers test CanRead first)
Get(x, f) == IF x.t = "object" /\ f \in DOMAIN x.v THEN x.v[f] ELSE JUndefined
CanRead(x) == x.t \notin {"null", "undefined"}

\* !x
Falsy(x) ==
  \/ x.t \in {"undefined", "null"}
  \/ x.t = "string" /\ x.v = ""
  \/ x.t = "number" /\ x.v = 0

\* a || b
OrElse(a, b) == IF Falsy(a) THEN b ELSE a

(***************************************************************************)
(* JSON.stringify and JSON.parse.  A text is modelled by the value tree it *)
(* denotes: stringify drops the properties whose value is undefined and    *)
(* writes null for an undefined array element; parse throws on a text that *)
(* is not JSON.                                                            *)
(***************************************************************************)
RECURSIVE JSONValue(_)
JSONValue(x) ==
  CASE x.t = "object" ->
         JObj([f \in {g \in DOMAIN x.v : x.v[g].t # "undefined"} |-> JSONValue(x.v[f])])
    [] x.t = "array" ->
         JArr([j \in 1..Len(x.v) |->
                 IF x.v[j].t = "undefined" THEN JNull ELSE JSONValue(x.v[j])])
    [] OTHER -> x

JSONStringify(x) == [kind |-> "json", data |-> JSONValue(x)]
NotJSON == [kind |-> "garbage"]
ParseThrows(text) == text.kind # "json"
JSONParse(text) == text.data

(***************************************************************************)
(* String.prototype.trim on the themes of the model (blanks only).         *)
(***************************************************************************)
RECURSIVE TrimStart(_)
TrimStart(s) ==
  IF Len(s) > 0 /\ SubSeq(s, 1, 1) = " " THEN TrimStart(SubSeq(s, 2, Len(s))) ELSE s
RECURSIVE TrimEnd(_)
TrimEnd(s) ==
  IF Len(s) > 0 /\ SubSeq(s, Len(s), Len(s)) = " "
  THEN TrimEnd(SubSeq(s, 1, Len(s) - 1)) ELSE s
Trim(s) == TrimEnd(TrimStart(s))

(***************************************************************************)
(* State.                                                                  *)
(***************************************************************************)
VARIABLES
  \* App (src/src/App.tsx)
  mode, books, currentBookId, pages, title, coverData,
  \* localStorage[STORAGE_KEY]
  storage,
  \* environment: Date.now(), the stored API key, the values Math.random() has given
  now, apiKey, randoms,
  \* AIGenerator component state
  theme, pageCount, baseImages, isGenerating, progress, error,
  \* FileReaders started by handleImageUpload that have not fired onloadend yet
  readers, uploads,
  \* the handleGenerate invocation in flight: its position, locals and closure
  run,
  \* history of the current run: external calls completed, setProgress calls,
  \* onGenerate calls
  calls, snapshots, delivered,
  \* how the last call of handleGenerate ended, until the form is used again
  lastGenerate,
  \* Home import handlers in flight, the last alert shown, the last file downloaded
  imp, alertMsg, download, imports,
  \* handleGenerate invocations of AIGenerator components that are unmounted,
  \* what the initial load effect got from loadBooks
  detached, loaded

appVars == <<mode, books, currentBookId, pages, title, coverData, storage>>
envVars == <<now, apiKey, randoms>>
genVars == <<theme, pageCount, baseImages, isGenerating, progress, error>>
uploadVars == <<readers, uploads>>
runVars == <<run, calls, snapshots, delivered>>
homeVars == <<imp, alertMsg, download, imports>>
sessionVars == <<detached, loaded>>
vars == <<appVars, envVars, genVars, uploadVars, runVars, homeVars, sessionVars, lastGenerate>>

(***************************************************************************)
(* The clock.  Date.now() is a 13-digit number of milliseconds; the model  *)
(* keeps it at a fixed width of two digits.                                *)
(***************************************************************************)
StartTime == 10
DateNowToString == ToString(now)

Tick ==
  /\ now < StartTime + MaxTicks
  /\ now' = now + 1
  /\ UNCHANGED <<sessionVars, appVars, apiKey, randoms, genVars, uploadVars, runVars, homeVars,
                 lastGenerate>>

(***************************************************************************)
(* localStorage (App.tsx loadBooks / saveBooks).  setItem throws when the  *)
(* quota is exceeded; saveBooks catches and logs it.                       *)
(***************************************************************************)
NoItem == [kind |-> "absent"]
EmptyItem == [kind |-> "empty"]

\* the value loadBooks returns: what JSON.parse made of the item, array or not;
\* getItem gives null for an absent item, and the empty text is falsy too
loadBooks(item) ==
  IF item.kind \in {"absent", "empty"} THEN JArr(<<>>)
  ELSE IF ParseThrows(item) THEN JArr(<<>>)
  ELSE JSONParse(item)

\* the values localStorage can hold after saveBooks(bs): the new text, or the
\* old one when setItem threw
saveBooks(bs, item) == {JSONStringify(JArr(bs)), item}

(***************************************************************************)
(* AIGenerator (src/unnamed/part_001 lines 340-484).                       *)
(***************************************************************************)
PageCountChoices == {3, 5, 7, 10}
InitialPageCount == 5
MaxBaseImages == 3
Themes == {"", " ", " a"}

NoProgress == [current |-> 0, total |-> 0, message |-> ""]
NoError == [set |-> FALSE, message |-> ""]
ErrorOf(m) == [set |-> TRUE, message |-> m]

IdleRun ==
  [pc |-> "idle", theme |-> "", pageCount |-> 0, baseImages |-> <<>>,
   onGenerateBooks |-> <<>>, pages |-> <<>>, storyTexts |-> <<>>,
   baseImageDescriptions |-> <<>>, descriptions |-> <<>>, k |-> 0, i |-> 0,
   storyText |-> "", imagePrompt |-> ""]

\* imageData.match(/^data:(.+);base64,(.+)$/)
MatchesDataUrl(s) ==
  /\ Len(s) >= 5
  /\ SubSeq(s, 1, 5) = "data:"
  /\ \E j \in 7..Len(s) :
       /\ j + 8 <= Len(s)
       /\ SubSeq(s, j, j + 7) = ";base64,"

\* what FileReader.readAsDataURL gives: two images and an empty file
ReaderResults == {"data:image/png;base64,A", "data:image/png;base64,B", "data:"}

(***************************************************************************)
(* The Gemini client (src/unnamed/part_002).  A reply is the provider's    *)
(* answer to the request: the model names it after what was asked.  Every  *)
(* call can also throw (transport, authentication, blocked response).      *)
(***************************************************************************)
\* generateStoryText returns response.text(), which is "" for a response
\* without content
StoryTextReplies(pageNumber) == {"", "text" \o ToString(pageNumber)}
\* generateImagePrompt returns response.text()
ImagePromptReply(storyText) == "prompt:" \o storyText
\* generateImage returns `data:${mimeType};base64,${imageData}` of the first
\* inlineData part, and throws when the response has none
ImageReply(prompt) == "data:image/png;base64," \o prompt
\* analyzeBaseImages pushes response.text() of each image
DescriptionReply(imageData) == "style of " \o imageData
ProviderErrorMessage == "provider error"

Call(op, page, arg, ok, value) ==
  [op |-> op, page |-> page, arg |-> arg, ok |-> ok, value |-> value]

(***************************************************************************)
(* handleGenerate, cut at its awaits.                                      *)
(***************************************************************************)
Total(r) == r.pageCount + 2

PreparingProgress(r) ==
  [current |-> 0, total |-> Total(r), message |-> "preparing"]
AnalyzingProgress(r) ==
  [current |-> 0, total |-> Total(r), message |-> "analyzing reference images"]
\* (mutant) the total without the two steps around the pages
StoryProgress_PagesOnly(r, i) ==
  [current |-> i, total |-> r.pageCount,
   message |-> "page " \o ToString(i) \o "/" \o ToString(r.pageCount) \o " story"]
StoryProgress(r, i) ==
  [current |-> i, total |-> Total(r),
   message |-> "page " \o ToString(i) \o "/" \o ToString(r.pageCount) \o " story"]
IllustrationProgress(r, i) ==
  [current |-> i, total |-> Total(r),
   message |-> "page " \o ToString(i) \o "/" \o ToString(r.pageCount) \o " illustration"]
\* (mutant) the cover step reported two steps too low
CoverProgress_Low(r) ==
  [current |-> r.pageCount - 1, total |-> Total(r), message |-> "cover"]
CoverProgress(r) ==
  [current |-> r.pageCount + 1, total |-> Total(r), message |-> "cover"]
DoneProgress(r) ==
  [current |-> r.pageCount + 2, total |-> Total(r), message |-> "done"]

\* a step of the handler: the locals after it and the setProgress calls it made
Step(r, snaps) == [run |-> r, snaps |-> snaps]

\* (mutant) the loop left one page early: i < pageCount
PageLoop_OnePageShort(r, i) ==
  IF i < r.pageCount
  THEN Step([r EXCEPT !.pc = "storyText", !.i = i], <<StoryProgress(r, i)>>)
  ELSE Step([r EXCEPT !.pc = "coverPrompt", !.i = i], <<CoverProgress(r)>>)

\* for (let i = 1; i <= pageCount; i++) { setProgress(...); await generateStoryText
\* and, after the loop, setProgress(cover); await generateImagePrompt
PageLoop(r, i) ==
  IF i <= r.pageCount
  THEN Step([r EXCEPT !.pc = "storyText", !.i = i], <<StoryProgress(r, i)>>)
  ELSE Step([r EXCEPT !.pc = "coverPrompt", !.i = i], <<CoverProgress(r)>>)

\* analyzeBaseImages: for (const imageData of images), from the k-th image on:
\* an image that does not match is skipped, a match is sent to the provider;
\* when the images are used up the descriptions are returned and the page
\* loop starts
AnalyzeLoop(r, k) ==
  LET matching == {j \in k..Len(r.baseImages) : MatchesDataUrl(r.baseImages[j])}
  IN IF matching # {}
     THEN Step([r EXCEPT !.pc = "analyze",
                         !.k = CHOOSE j \in matching : \A m \in matching : j <= m],
               <<>>)
     ELSE LET r2 == [r EXCEPT !.baseImageDescriptions = r.descriptions,
                              !.k = Len(r.baseImages) + 1]
              next == PageLoop(r2, 1)
          IN Step(next.run, next.snaps)

Last(s) == s[Len(s)]

\* the state changes of a step that stays inside the try block
Continue(step) ==
  /\ run' = step.run
  /\ snapshots' = snapshots \o step.snaps
  /\ progress' = IF step.snaps = <<>> THEN progress ELSE Last(step.snaps)

\* (mutant) the catch block without the finally block
Catch_NoFinally(message) ==
  /\ run' = [run EXCEPT !.pc = "failed"]
  /\ error' = ErrorOf(message)
  /\ isGenerating' = isGenerating
  /\ UNCHANGED <<progress, snapshots, delivered>>

\* catch (err) { setError(err.message) } finally { setIsGenerating(false) }
Catch(message) ==
  /\ run' = [run EXCEPT !.pc = "failed"]
  /\ error' = ErrorOf(message)
  /\ isGenerating' = FALSE
  /\ UNCHANGED <<progress, snapshots, delivered>>

\* lines 390-411: the handler from setIsGenerating(true) to its first await
StartRun ==
  LET r == [IdleRun EXCEPT !.theme = theme, !.pageCount = pageCount,
                           !.baseImages = baseImages,
                           !.onGenerateBooks = books]
      first == IF Len(baseImages) > 0
               THEN LET a == AnalyzeLoop(r, 1)
                    IN Step(a.run, <<AnalyzingProgress(r)>> \o a.snaps)
               ELSE PageLoop(r, 1)
      snaps == <<PreparingProgress(r)>> \o first.snaps
  IN /\ isGenerating' = TRUE
     /\ error' = NoError
     /\ run' = first.run
     /\ snapshots' = snaps
     /\ progress' = Last(snaps)
     /\ calls' = <<>>
     /\ delivered' = <<>>
     /\ lastGenerate' = "started"
     /\ UNCHANGED <<theme, pageCount, baseImages>>

\* lines 379-388: the early returns
Reject(message, how) ==
  /\ error' = ErrorOf(message)
  /\ lastGenerate' = how
  /\ UNCHANGED <<theme, pageCount, baseImages, isGenerating, progress, runVars>>

\* (mutant) the handler without its check of the theme
handleGenerate_NoThemeCheck ==
  IF apiKey = ""
  THEN Reject("API key is not set", "no API key")
  ELSE StartRun

handleGenerate ==
  IF apiKey = ""
  THEN Reject("API key is not set", "no API key")
  ELSE IF Trim(theme) = ""
  THEN Reject("enter a theme", "empty theme")
  ELSE StartRun

(***************************************************************************)
(* App.handleAIGenerateComplete (App.tsx lines 116-137), with the books of *)
(* the render whose handler the caller holds.                              *)
(***************************************************************************)
UntitledBook == "untitled book"
DefaultCover == JObj([image |-> JNull, imageScale |-> JNum(1)])

NewBook(t, cover, ps, time) ==
  JObj([id |-> JStr(ToString(time)),
        title |-> OrElse(JStr(t), JStr(UntitledBook)),
        coverData |-> cover,
        pages |-> JArr(ps),
        createdAt |-> JNum(time),
        updatedAt |-> JNum(time)])

\* (mutant) the new book put behind the others
handleAIGenerateComplete_Appends(generatedTitle, generatedCover, generatedPages, closureBooks) ==
  LET newBook == NewBook(generatedTitle, generatedCover, generatedPages, now)
      updatedBooks == closureBooks \o <<newBook>>
  IN /\ title' = generatedTitle
     /\ coverData' = generatedCover
     /\ pages' = generatedPages
     /\ books' = updatedBooks
     /\ storage' \in saveBooks(updatedBooks, storage)
     /\ currentBookId' = Get(newBook, "id")
     /\ mode' = "edit"

handleAIGenerateComplete(generatedTitle, generatedCover, generatedPages, closureBooks) ==
  LET newBook == NewBook(generatedTitle, generatedCover, generatedPages, now)
      updatedBooks == <<newBook>> \o closureBooks
  IN /\ title' = generatedTitle
     /\ coverData' = generatedCover
     /\ pages' = generatedPages
     /\ books' = updatedBooks
     /\ storage' \in saveBooks(updatedBooks, storage)
     /\ currentBookId' = Get(newBook, "id")
     /\ mode' = "edit"

(***************************************************************************)
(* handleGenerate, continued: the provider's answers.                      *)
(***************************************************************************)
runFrame ==
  <<appVars, envVars, theme, pageCount, baseImages, uploadVars, homeVars, sessionVars,
    lastGenerate>>

\* (mutant) analyzeBaseImages without the try/catch inside its loop
AnalyzeReturns_Fatal(ok) ==
  /\ run.pc = "analyze"
  /\ LET imageData == run.baseImages[run.k]
         reply == DescriptionReply(imageData)
     IN /\ calls' = Append(calls, Call("analyzeImage", run.k, <<imageData>>, ok,
                                       IF ok THEN reply ELSE ""))
        /\ IF ok
           THEN /\ Continue(AnalyzeLoop([run EXCEPT !.descriptions = Append(@, reply)],
                                        run.k + 1))
                /\ UNCHANGED <<error, isGenerating, delivered>>
           ELSE Catch(ProviderErrorMessage)
  /\ UNCHANGED runFrame

\* (mutant) a failed analysis pushes an empty description
AnalyzeReturns_KeepsFailed(ok) ==
  /\ run.pc = "analyze"
  /\ LET imageData == run.baseImages[run.k]
         reply == DescriptionReply(imageData)
         r == [run EXCEPT !.descriptions = Append(@, IF ok THEN reply ELSE "")]
     IN /\ calls' = Append(calls, Call("analyzeImage", run.k, <<imageData>>, ok,
                                       IF ok THEN reply ELSE ""))
        /\ Continue(AnalyzeLoop(r, run.k + 1))
  /\ UNCHANGED <<runFrame, error, isGenerating, delivered>>

\* analyzeBaseImages, lines 147-173: the answer for image k, or its failure,
\* which the try/catch inside the loop swallows
AnalyzeReturns(ok) ==
  /\ run.pc = "analyze"
  /\ LET imageData == run.baseImages[run.k]
         reply == DescriptionReply(imageData)
         r == IF ok THEN [run EXCEPT !.descriptions = Append(@, reply)] ELSE run
     IN /\ calls' = Append(calls, Call("analyzeImage", run.k, <<imageData>>, ok,
                                       IF ok THEN reply ELSE ""))
        /\ Continue(AnalyzeLoop(r, run.k + 1))
  /\ UNCHANGED <<runFrame, error, isGenerating, delivered>>

\* (mutant) the text of the page not pushed onto storyTexts
StoryTextReturns_NoPush(reply) ==
  /\ run.pc = "storyText"
  /\ reply \in StoryTextReplies(run.i)
  /\ calls' = Append(calls, Call("generateStoryText", run.i, run.storyTexts, TRUE, reply))
  /\ Continue(Step([run EXCEPT !.storyText = reply,
                               !.pc = "imagePrompt"],
                   <<IllustrationProgress(run, run.i)>>))
  /\ UNCHANGED <<runFrame, error, isGenerating, delivered>>

\* (mutant) no setProgress between the text and the illustration of a page
StoryTextReturns_NoProgress(reply) ==
  /\ run.pc = "storyText"
  /\ reply \in StoryTextReplies(run.i)
  /\ calls' = Append(calls, Call("generateStoryText", run.i, run.storyTexts, TRUE, reply))
  /\ Continue(Step([run EXCEPT !.storyTexts = Append(@, reply),
                               !.storyText = reply,
                               !.pc = "imagePrompt"],
                   <<>>))
  /\ UNCHANGED <<runFrame, error, isGenerating, delivered>>

\* lines 414-421
StoryTextReturns(reply) ==
  /\ run.pc = "storyText"
  /\ reply \in StoryTextReplies(run.i)
  /\ calls' = Append(calls, Call("generateStoryText", run.i, run.storyTexts, TRUE, reply))
  /\ Continue(Step([run EXCEPT !.storyTexts = Append(@, reply),
                               !.storyText = reply,
                               !.pc = "imagePrompt"],
                   <<IllustrationProgress(run, run.i)>>))
  /\ UNCHANGED <<runFrame, error, isGenerating, delivered>>

\* (mutant) a failed text tolerated like a failed image: the page gets no text
StoryTextThrows_Swallowed ==
  /\ run.pc = "storyText"
  /\ calls' = Append(calls, Call("generateStoryText", run.i, run.storyTexts, FALSE, ""))
  /\ Continue(Step([run EXCEPT !.storyTexts = Append(@, ""),
                               !.storyText = "",
                               !.pc = "imagePrompt"],
                   <<IllustrationProgress(run, run.i)>>))
  /\ UNCHANGED <<runFrame, error, isGenerating, delivered>>

StoryTextThrows ==
  /\ run.pc = "storyText"
  /\ calls' = Append(calls, Call("generateStoryText", run.i, run.storyTexts, FALSE, ""))
  /\ Catch(ProviderErrorMessage)
  /\ UNCHANGED runFrame

\* line 424
ImagePromptReturns ==
  /\ run.pc = "imagePrompt"
  /\ LET reply == ImagePromptReply(run.storyText)
     IN /\ calls' = Append(calls, Call("generateImagePrompt", run.i,
                                       <<run.storyText>> \o run.baseImageDescriptions,
                                       TRUE, reply))
        /\ Continue(Step([run EXCEPT !.imagePrompt = reply, !.pc = "image"], <<>>))
  /\ UNCHANGED <<runFrame, error, isGenerating, delivered>>

ImagePromptThrows ==
  /\ run.pc = "imagePrompt"
  /\ calls' = Append(calls, Call("generateImagePrompt", run.i,
                                 <<run.storyText>> \o run.baseImageDescriptions,
                                 FALSE, ""))
  /\ Catch(ProviderErrorMessage)
  /\ UNCHANGED runFrame

\* pages.push({ id: Date.now().toString() + i, image, imageScale: 1, text })
StoryPage(time, i, imageData, storyText) ==
  JObj([id |-> JStr(ToString(time) \o ToString(i)),
        image |-> imageData,
        imageScale |-> JNum(1),
        text |-> JStr(storyText)])

\* (mutant) generateImage outside a try/catch: its failure ends the run
ImageReturns_Fatal(ok) ==
  /\ run.pc = "image"
  /\ LET reply == ImageReply(run.imagePrompt)
         r == [run EXCEPT !.pages = Append(@, StoryPage(now, run.i, JStr(reply), run.storyText))]
     IN /\ calls' = Append(calls, Call("generateImage", run.i, <<run.imagePrompt>>, ok,
                                       IF ok THEN reply ELSE ""))
        /\ IF ok
           THEN /\ Continue(PageLoop(r, run.i + 1))
                /\ UNCHANGED <<error, isGenerating, delivered>>
           ELSE Catch(ProviderErrorMessage)
  /\ UNCHANGED runFrame

\* (mutant) pages.unshift instead of pages.push
ImageReturns_Unshift(ok) ==
  /\ run.pc = "image"
  /\ LET reply == ImageReply(run.imagePrompt)
         imageData == IF ok THEN JStr(reply) ELSE JNull
         r == [run EXCEPT !.pages = <<StoryPage(now, run.i, imageData, run.storyText)>> \o @]
     IN /\ calls' = Append(calls, Call("generateImage", run.i, <<run.imagePrompt>>, ok,
                                       IF ok THEN reply ELSE ""))
        /\ Continue(PageLoop(r, run.i + 1))
  /\ UNCHANGED <<runFrame, error, isGenerating, delivered>>

\* (mutant) a failed page image attempted a second time
ImageReturns_RetriesOnce(ok) ==
  /\ run.pc = "image"
  /\ LET reply == ImageReply(run.imagePrompt)
         imageData == IF ok THEN JStr(reply) ELSE JNull
         r == [run EXCEPT !.pages = Append(@, StoryPage(now, run.i, imageData, run.storyText))]
         first == calls = <<>> \/ calls[Len(calls)].op # "generateImage"
     IN /\ calls' = Append(calls, Call("generateImage", run.i, <<run.imagePrompt>>, ok,
                                       IF ok THEN reply ELSE ""))
        /\ IF ~ok /\ first
           THEN Continue(Step(run, <<>>))
           ELSE Continue(PageLoop(r, run.i + 1))
  /\ UNCHANGED <<runFrame, error, isGenerating, delivered>>

\* lines 427-440: the image, or null when generateImage threw
ImageReturns(ok) ==
  /\ run.pc = "image"
  /\ LET reply == ImageReply(run.imagePrompt)
         imageData == IF ok THEN JStr(reply) ELSE JNull
         r == [run EXCEPT !.pages = Append(@, StoryPage(now, run.i, imageData, run.storyText))]
     IN /\ calls' = Append(calls, Call("generateImage", run.i, <<run.imagePrompt>>, ok,
                                       IF ok THEN reply ELSE ""))
        /\ Continue(PageLoop(r, run.i + 1))
  /\ UNCHANGED <<runFrame, error, isGenerating, delivered>>

\* lines 463-477 and the finally block: the cover, the last progress, onGenerate
Complete(coverImage) ==
  LET cover == JObj([image |-> coverImage, imageScale |-> JNum(1)])
      generatedTitle == run.theme
  IN /\ run' = [run EXCEPT !.pc = "done"]
     /\ snapshots' = Append(snapshots, DoneProgress(run))
     /\ progress' = DoneProgress(run)
     /\ delivered' = Append(delivered,
                            [title |-> generatedTitle, coverData |-> cover,
                             pages |-> run.pages])
     /\ handleAIGenerateComplete(generatedTitle, cover, run.pages, run.onGenerateBooks)
     /\ isGenerating' = FALSE
     /\ UNCHANGED <<sessionVars, envVars, theme, pageCount, baseImages, uploadVars, homeVars,
                    lastGenerate, error>>

CoverText(t) == "cover: " \o t

\* lines 451-457
CoverPromptReturns ==
  /\ run.pc = "coverPrompt"
  /\ LET reply == ImagePromptReply(CoverText(run.theme))
     IN /\ calls' = Append(calls, Call("generateImagePrompt", run.i,
                                       <<CoverText(run.theme)>> \o run.baseImageDescriptions,
                                       TRUE, reply))
        /\ Continue(Step([run EXCEPT !.imagePrompt = reply, !.pc = "coverImage"], <<>>))
  /\ UNCHANGED <<runFrame, error, isGenerating, delivered>>

\* (mutant) the cover's prompt derived outside the try block
CoverPromptThrows_Fatal ==
  /\ run.pc = "coverPrompt"
  /\ calls' = Append(calls, Call("generateImagePrompt", run.i,
                                 <<CoverText(run.theme)>> \o run.baseImageDescriptions,
                                 FALSE, ""))
  /\ Catch(ProviderErrorMessage)
  /\ UNCHANGED runFrame

\* lines 459-461: the cover's catch
CoverPromptThrows ==
  /\ run.pc = "coverPrompt"
  /\ calls' = Append(calls, Call("generateImagePrompt", run.i,
                                 <<CoverText(run.theme)>> \o run.baseImageDescriptions,
                                 FALSE, ""))
  /\ Complete(JNull)

\* line 458
CoverImageReturns(ok) ==
  /\ run.pc = "coverImage"
  /\ LET reply == ImageReply(run.imagePrompt)
     IN /\ calls' = Append(calls, Call("generateImage", run.i, <<run.imagePrompt>>, ok,
                                       IF ok THEN reply ELSE ""))
        /\ Complete(IF ok THEN JStr(reply) ELSE JNull)

(***************************************************************************)
(* The generator screen: App.handleAIGenerate mounts AIGenerator, onCancel *)
(* unmounts it; the form controls are disabled while isGenerating.         *)
(***************************************************************************)
\* the record of an invocation that has ended, and its history, are dropped at
\* the next use of the form
ForgetFinishedRun ==
  IF run.pc \in {"failed", "done"}
  THEN /\ run' = IdleRun
       /\ calls' = <<>>
       /\ snapshots' = <<>>
       /\ delivered' = <<>>
  ELSE UNCHANGED runVars

\* App.tsx lines 108-114; the mounted component starts from its useState values
handleAIGenerate ==
  /\ mode = "home"
  /\ currentBookId' = JNull
  /\ title' = ""
  /\ coverData' = DefaultCover
  /\ pages' = <<>>
  /\ mode' = "ai-generate"
  /\ theme' = ""
  /\ pageCount' = InitialPageCount
  /\ baseImages' = <<>>
  /\ isGenerating' = FALSE
  /\ progress' = NoProgress
  /\ error' = NoError
  /\ readers' = <<>>
  /\ run' = IdleRun
  /\ calls' = <<>>
  /\ snapshots' = <<>>
  /\ delivered' = <<>>
  /\ lastGenerate' = "none"
  /\ UNCHANGED <<sessionVars, books, storage, envVars, uploads, homeVars>>

\* App.tsx line 254, the cancel button of part_001 lines 659-664
onCancel ==
  /\ mode = "ai-generate"
  /\ ~isGenerating
  /\ mode' = "home"
  /\ lastGenerate' = "none"
  /\ ForgetFinishedRun
  /\ UNCHANGED <<sessionVars, books, currentBookId, pages, title, coverData, storage, envVars,
                 genVars, uploadVars, homeVars>>

\* part_001 lines 512-518
setTheme(t) ==
  /\ mode = "ai-generate"
  /\ ~isGenerating
  /\ theme' = t
  /\ lastGenerate' = "none"
  /\ ForgetFinishedRun
  /\ UNCHANGED <<sessionVars, appVars, envVars, pageCount, baseImages, isGenerating, progress, error,
                 uploadVars, homeVars>>

\* part_001 lines 527-540
setPageCount(count) ==
  /\ mode = "ai-generate"
  /\ ~isGenerating
  /\ pageCount' = count
  /\ lastGenerate' = "none"
  /\ ForgetFinishedRun
  /\ UNCHANGED <<sessionVars, appVars, envVars, theme, baseImages, isGenerating, progress, error,
                 uploadVars, homeVars>>

\* part_001 lines 355-372: every picked file gets a reader unless the images of
\* this render are already three; the add button shows below three images
handleImageUpload(files) ==
  /\ mode = "ai-generate"
  /\ ~isGenerating
  /\ Len(baseImages) < MaxBaseImages
  /\ uploads + Len(files) <= MaxPickedFiles
  /\ uploads' = uploads + Len(files)
  /\ readers' = IF Len(baseImages) >= MaxBaseImages THEN readers ELSE readers \o files
  /\ lastGenerate' = "none"
  /\ ForgetFinishedRun
  /\ UNCHANGED <<sessionVars, appVars, envVars, genVars, homeVars>>

RemoveAt(s, j) == SubSeq(s, 1, j - 1) \o SubSeq(s, j + 1, Len(s))
Min(a, b) == IF a <= b THEN a ELSE b

\* reader.onloadend: setBaseImages(prev => [...prev.slice(0, 2), reader.result])
readerLoadEnd(j) ==
  /\ mode = "ai-generate"
  /\ j \in 1..Len(readers)
  /\ baseImages' = SubSeq(baseImages, 1, Min(2, Len(baseImages))) \o <<readers[j]>>
  /\ readers' = RemoveAt(readers, j)
  /\ UNCHANGED <<sessionVars, appVars, envVars, theme, pageCount, isGenerating, progress, error,
                 uploads, runVars, homeVars, lastGenerate>>

\* part_001 lines 374-376
removeImage(index) ==
  /\ mode = "ai-generate"
  /\ ~isGenerating
  /\ index \in 1..Len(baseImages)
  /\ baseImages' = RemoveAt(baseImages, index)
  /\ lastGenerate' = "none"
  /\ ForgetFinishedRun
  /\ UNCHANGED <<sessionVars, appVars, envVars, theme, pageCount, isGenerating, progress, error,
                 uploadVars, homeVars>>

\* part_001 line 668: disabled={isGenerating || !theme.trim()}
GenerateDisabled == isGenerating \/ Trim(theme) = ""

\* the generate button
ClickGenerate ==
  /\ mode = "ai-generate"
  /\ ~GenerateDisabled
  /\ pageCount <= MaxPageCount
  /\ handleGenerate
  /\ UNCHANGED <<sessionVars, appVars, envVars, uploadVars, homeVars>>

\* handleGenerate called with the form as it is, whatever the button's state
\* (the handler's own checks are then all that stands before the provider)
InvokeHandleGenerate ==
  /\ mode = "ai-generate"
  /\ ~isGenerating
  /\ pageCount <= MaxPageCount
  /\ handleGenerate
  /\ UNCHANGED <<sessionVars, appVars, envVars, uploadVars, homeVars>>

FilesOfUpload == UNION {[1..n -> ReaderResults] : n \in 1..MaxPickedFiles}

NoImport == [pc |-> "idle"]
NoAlert == ""
NoDownload == [kind |-> "absent"]

(***************************************************************************)
(* The specification of the generator: the app starts on the home screen   *)
(* with an empty bookshelf, with or without a stored API key.  No step of  *)
(* a run reads the clock except to name the pages and the book, so the     *)
(* clock stands still here; it runs in the specifications of the bookshelf.*)
(***************************************************************************)
Init ==
  /\ mode = "home"
  /\ storage = NoItem
  /\ books = loadBooks(NoItem).v
  /\ currentBookId = JNull
  /\ pages = <<>>
  /\ title = ""
  /\ coverData = DefaultCover
  /\ now = StartTime
  /\ apiKey \in {"", "key"}
  /\ randoms = 0
  /\ theme = ""
  /\ pageCount = InitialPageCount
  /\ baseImages = <<>>
  /\ isGenerating = FALSE
  /\ progress = NoProgress
  /\ error = NoError
  /\ readers = <<>>
  /\ uploads = 0
  /\ run = IdleRun
  /\ calls = <<>>
  /\ snapshots = <<>>
  /\ delivered = <<>>
  /\ lastGenerate = "none"
  /\ imp = NoImport
  /\ alertMsg = NoAlert
  /\ download = NoDownload
  /\ imports = 0
  /\ detached = <<>>
  /\ loaded = loadBooks(NoItem)

GeneratorNext ==
  \/ handleAIGenerate
  \/ onCancel
  \/ \E t \in Themes : setTheme(t)
  \/ \E count \in PageCountChoices : setPageCount(count)
  \/ \E files \in FilesOfUpload : handleImageUpload(files)
  \/ \E j \in 1..MaxBaseImages : readerLoadEnd(j)
  \/ \E index \in 1..MaxBaseImages : removeImage(index)
  \/ ClickGenerate
  \/ \E ok \in BOOLEAN : AnalyzeReturns(ok)
  \/ \E reply \in UNION {StoryTextReplies(i) : i \in 1..MaxPageCount} : StoryTextReturns(reply)
  \/ StoryTextThrows
  \/ ImagePromptReturns
  \/ ImagePromptThrows
  \/ \E ok \in BOOLEAN : ImageReturns(ok)
  \/ CoverPromptReturns
  \/ CoverPromptThrows
  \/ \E ok \in BOOLEAN : CoverImageReturns(ok)

Next == GeneratorNext

Spec == Init /\ [][Next]_vars

DirectNext == GeneratorNext \/ InvokeHandleGenerate

SpecDirect == Init /\ [][DirectNext]_vars

\* the provider's answer to the call handleGenerate is awaiting: every await of
\* the handler is on a promise of the provider, which resolves or rejects
ProviderAnswers ==
  \/ \E ok \in BOOLEAN : AnalyzeReturns(ok)
  \/ \E reply \in UNION {StoryTextReplies(i) : i \in 1..MaxPageCount} : StoryTextReturns(reply)
  \/ StoryTextThrows
  \/ ImagePromptReturns
  \/ ImagePromptThrows
  \/ \E ok \in BOOLEAN : ImageReturns(ok)
  \/ CoverPromptReturns
  \/ CoverPromptThrows
  \/ \E ok \in BOOLEAN : CoverImageReturns(ok)

\* the generator when every call of the provider eventually settles
SpecLive == Init /\ [][Next]_vars /\ WF_vars(ProviderAnswers)

(***************************************************************************)
(* Import and export (src/unnamed/part_000).                               *)
(***************************************************************************)
EXPORT_VERSION == "1.0"

\* downloadSingleBook, lines 44-51: the text handed to the browser
downloadSingleBook(book) ==
  JSONStringify(JObj([version |-> JStr(EXPORT_VERSION),
                      exportedAt |-> JNum(now),
                      book |-> book]))

\* downloadBookshelf, lines 20-27
downloadBookshelf(bs) ==
  JSONStringify(JObj([version |-> JStr(EXPORT_VERSION),
                      exportedAt |-> JNum(now),
                      books |-> JArr(bs)]))

\* (mutant) validateBook without Array.isArray(b.pages)
validateBook_NoPagesCheck(book) ==
  IF Falsy(book) \/ Typeof(book) # "object" THEN FALSE
  ELSE /\ Typeof(Get(book, "id")) = "string"
       /\ Typeof(Get(book, "title")) = "string"
       /\ Get(book, "coverData") # JUndefined
       /\ Typeof(Get(book, "createdAt")) = "number"
       /\ Typeof(Get(book, "updatedAt")) = "number"

\* validateBook, lines 79-90
validateBook(book) ==
  IF Falsy(book) \/ Typeof(book) # "object" THEN FALSE
  ELSE /\ Typeof(Get(book, "id")) = "string"
       /\ Typeof(Get(book, "title")) = "string"
       /\ Get(book, "coverData") # JUndefined
       /\ IsArray(Get(book, "pages"))
       /\ Typeof(Get(book, "createdAt")) = "number"
       /\ Typeof(Get(book, "updatedAt")) = "number"

\* Date.now().toString() + Math.random().toString(36).slice(2), for the n-th
\* value Math.random() gives: a value it has not given before
NewId(n) == ToString(now) \o "r" \o ToString(n)

IdsOf(bs) == {Get(bs[j], "id") : j \in 1..Len(bs)}

\* { ...book, id }
WithId(book, id) == JObj([book.v EXCEPT !["id"] = JStr(id)])

Thrown(message) == [ok |-> FALSE, message |-> message]

\* the answer of readFileAsText: the text, or a rejection
CannotRead == [kind |-> "unreadable"]

\* (mutant) the merge branch without the new ids
uploadBookshelf_NoNewIds(text, existingBooks, importMode) ==
  IF text.kind = "unreadable" THEN Thrown("could not read the file")
  ELSE IF ParseThrows(text) THEN Thrown("SyntaxError")
  ELSE LET data == JSONParse(text)
       IN IF ~CanRead(data) THEN Thrown("TypeError")
          ELSE IF Falsy(Get(data, "books")) \/ ~IsArray(Get(data, "books"))
          THEN Thrown("not a bookshelf file")
          ELSE LET validBooks == SelectSeq(Get(data, "books").v, validateBook)
               IN IF Len(validBooks) = 0 THEN Thrown("no valid book found")
                  ELSE IF importMode = "replace"
                  THEN [ok |-> TRUE, books |-> validBooks,
                        importedCount |-> Len(validBooks), randoms |-> 0]
                  ELSE [ok |-> TRUE, books |-> existingBooks \o validBooks,
                        importedCount |-> Len(validBooks), randoms |-> 0]

\* (mutant) the replace branch keeping the existing books
uploadBookshelf_ReplaceKeeps(text, existingBooks, importMode) ==
  IF text.kind = "unreadable" THEN Thrown("could not read the file")
  ELSE IF ParseThrows(text) THEN Thrown("SyntaxError")
  ELSE LET data == JSONParse(text)
       IN IF ~CanRead(data) THEN Thrown("TypeError")
          ELSE IF Falsy(Get(data, "books")) \/ ~IsArray(Get(data, "books"))
          THEN Thrown("not a bookshelf file")
          ELSE LET validBooks == SelectSeq(Get(data, "books").v, validateBook)
               IN IF Len(validBooks) = 0 THEN Thrown("no valid book found")
                  ELSE IF importMode = "replace"
                  THEN [ok |-> TRUE, books |-> validBooks \o existingBooks,
                        importedCount |-> Len(validBooks), randoms |-> 0]
                  ELSE LET existingIds == IdsOf(existingBooks)
                           clash(j) == Get(validBooks[j], "id") \in existingIds
                           clashesUpTo(j) == Cardinality({m \in 1..j : clash(m)})
                           mergedBooks ==
                             [j \in 1..Len(validBooks) |->
                                IF clash(j)
                                THEN WithId(validBooks[j], NewId(randoms + clashesUpTo(j)))
                                ELSE validBooks[j]]
                       IN [ok |-> TRUE, books |-> existingBooks \o mergedBooks,
                           importedCount |-> Len(mergedBooks),
                           randoms |-> clashesUpTo(Len(validBooks))]

\* uploadBookshelf, lines 93-125; randoms is the number of Math.random() calls
uploadBookshelf(text, existingBooks, importMode) ==
  IF text.kind = "unreadable" THEN Thrown("could not read the file")
  ELSE IF ParseThrows(text) THEN Thrown("SyntaxError")
  ELSE LET data == JSONParse(text)
       IN IF ~CanRead(data) THEN Thrown("TypeError")
          ELSE IF Falsy(Get(data, "books")) \/ ~IsArray(Get(data, "books"))
          THEN Thrown("not a bookshelf file")
          ELSE LET validBooks == SelectSeq(Get(data, "books").v, validateBook)
               IN IF Len(validBooks) = 0 THEN Thrown("no valid book found")
                  ELSE IF importMode = "replace"
                  THEN [ok |-> TRUE, books |-> validBooks,
                        importedCount |-> Len(validBooks), randoms |-> 0]
                  ELSE LET existingIds == IdsOf(existingBooks)
                           clash(j) == Get(validBooks[j], "id") \in existingIds
                           clashesUpTo(j) == Cardinality({m \in 1..j : clash(m)})
                           mergedBooks ==
                             [j \in 1..Len(validBooks) |->
                                IF clash(j)
                                THEN WithId(validBooks[j], NewId(randoms + clashesUpTo(j)))
                                ELSE validBooks[j]]
                       IN [ok |-> TRUE, books |-> existingBooks \o mergedBooks,
                           importedCount |-> Len(mergedBooks),
                           randoms |-> clashesUpTo(Len(validBooks))]

\* lines 136-143: the candidate of a single-book import
SingleCandidate(data) ==
  IF ~Falsy(Get(data, "book")) THEN Get(data, "book")
  ELSE IF /\ ~Falsy(Get(data, "books"))
          /\ IsArray(Get(data, "books"))
          /\ Len(Get(data, "books").v) > 0
  THEN Get(data, "books").v[1]
  ELSE JUndefined

\* (mutant) a new id for every imported book, clash or not
uploadSingleBook_AlwaysNewId(text, existingBooks) ==
  IF text.kind = "unreadable" THEN Thrown("could not read the file")
  ELSE IF ParseThrows(text) THEN Thrown("SyntaxError")
  ELSE LET data == JSONParse(text)
       IN IF ~CanRead(data) THEN Thrown("TypeError")
          ELSE LET book == SingleCandidate(data)
               IN IF book = JUndefined THEN Thrown("no book found")
                  ELSE IF ~validateBook(book) THEN Thrown("not a book")
                  ELSE LET importedBook == WithId(book, NewId(randoms + 1))
                       IN [ok |-> TRUE, books |-> <<importedBook>> \o existingBooks,
                           importedBook |-> importedBook, randoms |-> 1]

\* uploadSingleBook, lines 128-163
uploadSingleBook(text, existingBooks) ==
  IF text.kind = "unreadable" THEN Thrown("could not read the file")
  ELSE IF ParseThrows(text) THEN Thrown("SyntaxError")
  ELSE LET data == JSONParse(text)
       IN IF ~CanRead(data) THEN Thrown("TypeError")
          ELSE LET book == SingleCandidate(data)
               IN IF book = JUndefined THEN Thrown("no book found")
                  ELSE IF ~validateBook(book) THEN Thrown("not a book")
                  ELSE LET clash == Get(book, "id") \in IdsOf(existingBooks)
                           importedBook == IF clash THEN WithId(book, NewId(randoms + 1))
                                           ELSE book
                       IN [ok |-> TRUE, books |-> <<importedBook>> \o existingBooks,
                           importedBook |-> importedBook,
                           randoms |-> IF clash THEN 1 ELSE 0]

(***************************************************************************)
(* The bookshelf screen: Home's import, export and delete handlers         *)
(* (src/unnamed/part_001 lines 28-81, 293-299) and the App callbacks they  *)
(* call (App.tsx lines 147-151, 206-210).                                  *)
(***************************************************************************)
\* App.handleUpdateBooks
handleUpdateBooks(newBooks) ==
  /\ books' = newBooks
  /\ storage' \in saveBooks(newBooks, storage)

\* the record of an import that has ended is dropped at the next use of the
\* screen
ForgetFinishedImport ==
  imp' = IF imp.pc = "finished" THEN NoImport ELSE imp

\* an alert is on the screen until it is dismissed, before the next handler runs
DismissAlert == alertMsg' = NoAlert

\* (mutant) the delete that saves the books it was given, not the filtered ones
handleDeleteBook_SavesStale(id) ==
  /\ mode = "home"
  /\ id \in IdsOf(books)
  /\ LET updatedBooks == SelectSeq(books, LAMBDA b : Get(b, "id") # id)
     IN /\ books' = updatedBooks
        /\ storage' \in saveBooks(books, storage)
  /\ ForgetFinishedImport
  /\ DismissAlert
  /\ UNCHANGED <<sessionVars, mode, currentBookId, pages, title, coverData, envVars, genVars,
                 uploadVars, runVars, download, imports, lastGenerate>>

\* App.handleDeleteBook, called from the delete button once confirmed
handleDeleteBook(id) ==
  /\ mode = "home"
  /\ id \in IdsOf(books)
  /\ LET updatedBooks == SelectSeq(books, LAMBDA b : Get(b, "id") # id)
     IN /\ books' = updatedBooks
        /\ storage' \in saveBooks(updatedBooks, storage)
  /\ ForgetFinishedImport
  /\ DismissAlert
  /\ UNCHANGED <<sessionVars, mode, currentBookId, pages, title, coverData, envVars, genVars,
                 uploadVars, runVars, download, imports, lastGenerate>>

\* Home.handleDownloadBook
handleDownloadBook(j) ==
  /\ mode = "home"
  /\ j \in 1..Len(books)
  /\ download' = [kind |-> "single", text |-> downloadSingleBook(books[j]), book |-> books[j]]
  /\ ForgetFinishedImport
  /\ DismissAlert
  /\ UNCHANGED <<sessionVars, appVars, envVars, genVars, uploadVars, runVars, imports, lastGenerate>>

\* Home.handleDownloadBookshelf
handleDownloadBookshelf ==
  /\ mode = "home"
  /\ IF Len(books) = 0
     THEN /\ alertMsg' = "no book to download"
          /\ UNCHANGED download
     ELSE /\ download' = [kind |-> "bookshelf", text |-> downloadBookshelf(books),
                          book |-> JUndefined]
          /\ DismissAlert
  /\ ForgetFinishedImport
  /\ UNCHANGED <<sessionVars, appVars, envVars, genVars, uploadVars, runVars, imports, lastGenerate>>

\* Home.handleUploadBookshelf up to its await: the file, the books of this
\* render and the answer to the confirm dialog
handleUploadBookshelf(file, importMode) ==
  /\ mode = "home"
  /\ imp.pc # "reading"
  /\ imports < MaxImports
  /\ imports' = imports + 1
  /\ imp' = [pc |-> "reading", kind |-> "bookshelf", file |-> file,
             existingBooks |-> books, mode |-> importMode]
  /\ DismissAlert
  /\ UNCHANGED <<sessionVars, appVars, envVars, genVars, uploadVars, runVars, download, lastGenerate>>

\* Home.handleUploadSingleBook up to its await
handleUploadSingleBook(file) ==
  /\ mode = "home"
  /\ imp.pc # "reading"
  /\ imports < MaxImports
  /\ imports' = imports + 1
  /\ imp' = [pc |-> "reading", kind |-> "single", file |-> file,
             existingBooks |-> books, mode |-> "add"]
  /\ DismissAlert
  /\ UNCHANGED <<sessionVars, appVars, envVars, genVars, uploadVars, runVars, download, lastGenerate>>

ImportFailedAlert(message) == "import failed: " \o message

\* (mutant) a failed import that empties the bookshelf
ImportSettles_FailureClears(result, successAlert) ==
  /\ imp' = [pc |-> "finished", kind |-> imp.kind, file |-> imp.file,
             existingBooks |-> imp.existingBooks, mode |-> imp.mode,
             result |-> result]
  /\ IF result.ok
     THEN /\ handleUpdateBooks(result.books)
          /\ alertMsg' = successAlert
          /\ randoms' = randoms + result.randoms
     ELSE /\ alertMsg' = ImportFailedAlert(result.message)
          /\ handleUpdateBooks(<<>>)
          /\ UNCHANGED randoms
  /\ UNCHANGED <<sessionVars, mode, currentBookId, pages, title, coverData, now, apiKey, genVars,
                 uploadVars, runVars, download, imports, lastGenerate>>

\* the rest of a Home import handler, given what the upload function returned
\* or threw
ImportSettles(result, successAlert) ==
  /\ imp' = [pc |-> "finished", kind |-> imp.kind, file |-> imp.file,
             existingBooks |-> imp.existingBooks, mode |-> imp.mode,
             result |-> result]
  /\ IF result.ok
     THEN /\ handleUpdateBooks(result.books)
          /\ alertMsg' = successAlert
          /\ randoms' = randoms + result.randoms
     ELSE /\ alertMsg' = ImportFailedAlert(result.message)
          /\ UNCHANGED <<books, storage, randoms>>
  /\ UNCHANGED <<sessionVars, mode, currentBookId, pages, title, coverData, now, apiKey, genVars,
                 uploadVars, runVars, download, imports, lastGenerate>>

\* Home.handleUploadBookshelf after the file was read, or could not be
UploadBookshelfSettles(readable) ==
  /\ imp.pc = "reading"
  /\ imp.kind = "bookshelf"
  /\ LET result == uploadBookshelf(IF readable THEN imp.file ELSE CannotRead,
                                   imp.existingBooks, imp.mode)
     IN ImportSettles(result,
                      IF result.ok
                      THEN "imported " \o ToString(result.importedCount) \o " books"
                      ELSE "")

\* Home.handleUploadSingleBook after the file was read, or could not be
UploadSingleBookSettles(readable) ==
  /\ imp.pc = "reading"
  /\ imp.kind = "single"
  /\ LET result == uploadSingleBook(IF readable THEN imp.file ELSE CannotRead,
                                    imp.existingBooks)
     IN ImportSettles(result,
                      IF result.ok
                      THEN "imported " \o Get(result.importedBook, "title").v
                      ELSE "")

(***************************************************************************)
(* The files a user can pick.                                              *)
(***************************************************************************)
PageOf(id, text) ==
  JObj([id |-> JStr(id), image |-> JNull, imageScale |-> JNum(1), text |-> JStr(text)])

\* a book as the editor saves it, with two pages
BookX ==
  JObj([id |-> JStr("10"), title |-> JStr("X"), coverData |-> DefaultCover,
        pages |-> JArr(<<PageOf("101", "once"), PageOf("102", "the end")>>),
        createdAt |-> JNum(10), updatedAt |-> JNum(11)])

\* a book that has just what validateBook asks for
BookY ==
  JObj([id |-> JStr("11"), title |-> JStr(""), coverData |-> JNull,
        pages |-> JArr(<<>>), createdAt |-> JNum(11), updatedAt |-> JNum(10)])

Without(book, f) == JObj([g \in DOMAIN book.v \ {f} |-> book.v[g]])
With(book, f, x) == JObj([book.v EXCEPT ![f] = x])

ExportOf(fields) == JSONStringify(JObj(fields))

\* candidates that miss one of the requirements each, and one that is no object
InvalidCandidates ==
  { JNull,
    With(BookX, "id", JNum(10)),
    Without(BookX, "title"),
    Without(BookX, "coverData"),
    With(BookX, "pages", JNull),
    With(BookX, "createdAt", JStr("10")),
    Without(BookX, "updatedAt") }

ShelfFile(cs) ==
  ExportOf([version |-> JStr(EXPORT_VERSION), exportedAt |-> JNum(StartTime),
            books |-> JArr(cs)])

\* bookshelf files: up to MaxFileBooks valid books, a valid book followed by an
\* invalid candidate of each kind, and invalid candidates only
ShelfFiles ==
  { ShelfFile(cs) : cs \in UNION {[1..n -> {BookX, BookY}] : n \in 0..MaxFileBooks} }
    \cup { ShelfFile(<<BookX, c>>) : c \in InvalidCandidates }
    \cup { ShelfFile(<<JNull, With(BookX, "pages", JNull)>>) }

SingleFiles ==
  { ExportOf([version |-> JStr(EXPORT_VERSION), exportedAt |-> JNum(StartTime),
              book |-> c]) : c \in {BookX, BookY} \cup InvalidCandidates }

OtherFiles ==
  { NotJSON,
    JSONStringify(JNull),
    JSONStringify(JNum(1)),
    ExportOf([version |-> JStr(EXPORT_VERSION)]),
    ExportOf([books |-> JStr("none")]),
    ExportOf([book |-> JNull, books |-> JArr(<<BookX>>)]) }

PickableFiles ==
  ShelfFiles \cup SingleFiles \cup OtherFiles
    \cup (IF download.kind = "absent" THEN {} ELSE {download.text})

(***************************************************************************)
(* The specification of the bookshelf: the home screen, its imports,       *)
(* exports and deletions, and the clock.                                   *)
(***************************************************************************)
BookshelfInit == Init /\ apiKey = ""

BookshelfNext ==
  \/ Tick
  \/ \E file \in PickableFiles, importMode \in {"replace", "merge"} :
       handleUploadBookshelf(file, importMode)
  \/ \E readable \in BOOLEAN : UploadBookshelfSettles(readable)
  \/ \E file \in PickableFiles : handleUploadSingleBook(file)
  \/ \E readable \in BOOLEAN : UploadSingleBookSettles(readable)
  \/ \E id \in IdsOf(books) : handleDeleteBook(id)
  \/ \E j \in 1..Len(books) : handleDownloadBook(j)
  \/ handleDownloadBookshelf

SpecBookshelf == BookshelfInit /\ [][BookshelfNext]_vars

(***************************************************************************)
(* The App across its screens: the generator screen can be left while a    *)
(* run is in flight (App.tsx lines 233-235), which unmounts AIGenerator    *)
(* but does not stop its handleGenerate invocation; the editor             *)
(* (App.tsx lines 47-76, 100-106, 166-174).                                *)
(***************************************************************************)
\* at most this many invocations go on in unmounted components, next to the one
\* of the mounted component
MaxDetached == 1
\* a run or a new book is started only while the bookshelf holds fewer books
MaxShelfBooks == 2

InFlightPcs == {"analyze", "storyText", "imagePrompt", "image", "coverPrompt", "coverImage"}

\* AIGenerator is unmounted: its state is gone, an invocation of handleGenerate
\* in flight goes on with the closure it has; ds are the other such invocations
UnmountGenerator(ds) ==
  /\ detached' = IF run.pc \in InFlightPcs THEN Append(ds, run) ELSE ds
  /\ run' = IdleRun
  /\ calls' = <<>>
  /\ snapshots' = <<>>
  /\ delivered' = <<>>
  /\ theme' = ""
  /\ pageCount' = InitialPageCount
  /\ baseImages' = <<>>
  /\ isGenerating' = FALSE
  /\ progress' = NoProgress
  /\ error' = NoError
  /\ readers' = <<>>
  /\ lastGenerate' = "none"

\* App.tsx lines 233-235: the home button of the generator screen, which is
\* not disabled during a run
homeButton ==
  /\ mode = "ai-generate"
  /\ mode' = "home"
  /\ UnmountGenerator(detached)
  /\ UNCHANGED <<books, currentBookId, pages, title, coverData, storage, envVars, uploads,
                 homeVars, loaded>>

NotEnded(r) == [run |-> r, ended |-> "no", cover |-> JNull]
Failed(r) == [run |-> r, ended |-> "failed", cover |-> JNull]
Done(r, coverImage) == [run |-> r, ended |-> "done", cover |-> coverImage]

\* handleGenerate of an unmounted component, from the await it is at to the
\* next one: the same code (part_001 lines 399-483), its setProgress, setError
\* and setIsGenerating calls doing nothing
DetachedAdvance(r, ok, reply) ==
  CASE r.pc = "analyze" ->
         NotEnded(AnalyzeLoop(IF ok
                              THEN [r EXCEPT !.descriptions =
                                               Append(@, DescriptionReply(r.baseImages[r.k]))]
                              ELSE r,
                              r.k + 1).run)
    [] r.pc = "storyText" ->
         IF ok
         THEN NotEnded([r EXCEPT !.storyTexts = Append(@, reply), !.storyText = reply,
                                 !.pc = "imagePrompt"])
         ELSE Failed(r)
    [] r.pc = "imagePrompt" ->
         IF ok
         THEN NotEnded([r EXCEPT !.imagePrompt = ImagePromptReply(r.storyText), !.pc = "image"])
         ELSE Failed(r)
    [] r.pc = "image" ->
         LET imageData == IF ok THEN JStr(ImageReply(r.imagePrompt)) ELSE JNull
         IN NotEnded(PageLoop([r EXCEPT !.pages =
                                          Append(@, StoryPage(now, r.i, imageData, r.storyText))],
                              r.i + 1).run)
    [] r.pc = "coverPrompt" ->
         IF ok
         THEN NotEnded([r EXCEPT !.imagePrompt = ImagePromptReply(CoverText(r.theme)),
                                 !.pc = "coverImage"])
         ELSE Done(r, JNull)
    [] r.pc = "coverImage" ->
         Done(r, IF ok THEN JStr(ImageReply(r.imagePrompt)) ELSE JNull)

\* (mutant) storyTexts as one array shared by all invocations
DetachedReturns_SharedTexts(j, ok, reply) ==
  /\ j \in 1..Len(detached)
  /\ detached[j].pc = "storyText" => (ok => reply \in StoryTextReplies(detached[j].i))
  /\ LET a == DetachedAdvance(detached[j], ok, reply)
     IN IF a.ended = "done"
        THEN /\ handleAIGenerateComplete(a.run.theme,
                                         JObj([image |-> a.cover, imageScale |-> JNum(1)]),
                                         a.run.pages, a.run.onGenerateBooks)
             /\ UnmountGenerator(RemoveAt(detached, j))
             /\ UNCHANGED <<envVars, uploads, homeVars, loaded>>
        ELSE /\ detached' = IF a.ended = "failed"
                            THEN RemoveAt(detached, j)
                            ELSE [detached EXCEPT ![j] = a.run]
             /\ run' = IF run.pc \in InFlightPcs
                       THEN [run EXCEPT !.storyTexts = a.run.storyTexts]
                       ELSE run
             /\ UNCHANGED <<appVars, envVars, genVars, uploadVars, calls, snapshots, delivered,
                            homeVars, loaded, lastGenerate>>

\* the provider answers the j-th unmounted invocation; when that ends the
\* run, onGenerate is the handleAIGenerateComplete of the render the
\* invocation was started in, and the App goes to the editor
DetachedReturns(j, ok, reply) ==
  /\ j \in 1..Len(detached)
  /\ detached[j].pc = "storyText" => (ok => reply \in StoryTextReplies(detached[j].i))
  /\ LET a == DetachedAdvance(detached[j], ok, reply)
     IN IF a.ended = "done"
        THEN /\ handleAIGenerateComplete(a.run.theme,
                                         JObj([image |-> a.cover, imageScale |-> JNum(1)]),
                                         a.run.pages, a.run.onGenerateBooks)
             /\ UnmountGenerator(RemoveAt(detached, j))
             /\ UNCHANGED <<envVars, uploads, homeVars, loaded>>
        ELSE /\ detached' = IF a.ended = "failed"
                            THEN RemoveAt(detached, j)
                            ELSE [detached EXCEPT ![j] = a.run]
             /\ UNCHANGED <<appVars, envVars, genVars, uploadVars, runVars, homeVars, loaded,
                            lastGenerate>>

\* App.handleCreateNew, lines 100-106
handleCreateNew ==
  /\ mode = "home"
  /\ currentBookId' = JNull
  /\ title' = ""
  /\ coverData' = DefaultCover
  /\ pages' = <<>>
  /\ mode' = "edit"
  /\ DismissAlert
  /\ ForgetFinishedImport
  /\ UNCHANGED <<books, storage, envVars, genVars, uploadVars, runVars, download, imports,
                 sessionVars, lastGenerate>>

\* the title field of the editor (setTitle, App.tsx line 313)
EditorTitles == {"", "T"}
setTitle(t) ==
  /\ mode = "edit"
  /\ title' = t
  /\ DismissAlert
  /\ UNCHANGED <<mode, books, currentBookId, pages, coverData, storage, envVars, genVars,
                 uploadVars, runVars, imp, download, imports, sessionVars, lastGenerate>>

\* App.handleBackToHome, lines 166-174, the confirm dialog answered with OK
handleBackToHome ==
  /\ mode = "edit"
  /\ mode' = "home"
  /\ DismissAlert
  /\ UNCHANGED <<books, currentBookId, pages, title, coverData, storage, envVars, genVars,
                 uploadVars, runVars, imp, download, imports, sessionVars, lastGenerate>>

SavedAlert == "saved"

\* { ...book, title, coverData, pages, updatedAt: now }
SavedOver(book) ==
  JObj([book.v EXCEPT !["title"] = JStr(title), !["coverData"] = coverData,
                      !["pages"] = JArr(pages), !["updatedAt"] = JNum(now)])

\* App.handleSaveBook, lines 47-76; the button is disabled for an empty book
\* (line 300)
handleSaveBook ==
  /\ mode = "edit"
  /\ ~(Len(pages) = 0 /\ title = "")
  /\ IF ~Falsy(currentBookId)
     THEN LET updatedBooks ==
                [j \in 1..Len(books) |->
                   IF Get(books[j], "id") = currentBookId THEN SavedOver(books[j])
                   ELSE books[j]]
          IN /\ books' = updatedBooks
             /\ storage' \in saveBooks(updatedBooks, storage)
             /\ UNCHANGED currentBookId
     ELSE LET newBook == NewBook(title, coverData, pages, now)
              updatedBooks == <<newBook>> \o books
          IN /\ books' = updatedBooks
             /\ storage' \in saveBooks(updatedBooks, storage)
             /\ currentBookId' = Get(newBook, "id")
  /\ alertMsg' = SavedAlert
  /\ UNCHANGED <<mode, pages, title, coverData, envVars, genVars, uploadVars, runVars, imp,
                 download, imports, sessionVars, lastGenerate>>

\* App.handleFinish (App.tsx lines 176-203): the editor's finish button saves
\* the book as handleSaveBook does, except that a book without an id and
\* without pages is not saved, and opens the viewer
handleFinish ==
  /\ mode = "edit"
  /\ IF ~Falsy(currentBookId)
     THEN LET updatedBooks ==
                [j \in 1..Len(books) |->
                   IF Get(books[j], "id") = currentBookId THEN SavedOver(books[j])
                   ELSE books[j]]
          IN /\ books' = updatedBooks
             /\ storage' \in saveBooks(updatedBooks, storage)
             /\ UNCHANGED currentBookId
     ELSE IF Len(pages) > 0
     THEN LET newBook == NewBook(title, coverData, pages, now)
              updatedBooks == <<newBook>> \o books
          IN /\ books' = updatedBooks
             /\ storage' \in saveBooks(updatedBooks, storage)
             /\ currentBookId' = Get(newBook, "id")
     ELSE UNCHANGED <<books, storage, currentBookId>>
  /\ mode' = "view"
  /\ DismissAlert
  /\ UNCHANGED <<pages, title, coverData, envVars, genVars, uploadVars, runVars, imp,
                 download, imports, sessionVars, lastGenerate>>

\* App.handleCloseViewer (App.tsx lines 153-160), from the finished book
handleCloseViewer ==
  /\ mode = "view"
  /\ mode' = "home"
  /\ UNCHANGED <<books, currentBookId, pages, title, coverData, storage, envVars, genVars,
                 uploadVars, runVars, homeVars, sessionVars, lastGenerate>>

\* the provider's answers in the specification of the App: texts with content
TextsWithContent == {reply \in UNION {StoryTextReplies(i) : i \in 1..MaxPageCount} : reply # ""}

AppInit == Init /\ apiKey = "key"

\* the clock stands still, as in the specification of the generator, the
\* provider fails on texts only, and the user starts no run while another is
\* in flight
AppNext ==
  \/ handleAIGenerate
  \/ \E t \in Themes : setTheme(t)
  \/ \E count \in PageCountChoices : setPageCount(count)
  \/ (detached = <<>> /\ Len(books) < MaxShelfBooks /\ ClickGenerate)
  \/ homeButton
  \/ \E reply \in TextsWithContent : StoryTextReturns(reply)
  \/ StoryTextThrows
  \/ ImagePromptReturns
  \/ ImageReturns(TRUE)
  \/ CoverPromptReturns
  \/ CoverImageReturns(TRUE)
  \/ \E j \in 1..MaxDetached, reply \in TextsWithContent : DetachedReturns(j, TRUE, reply)
  \/ (Len(books) < MaxShelfBooks /\ handleCreateNew)
  \/ \E t \in EditorTitles : setTitle(t)
  \/ handleBackToHome
  \/ handleSaveBook
  \/ handleFinish
  \/ handleCloseViewer
  \/ \E id \in IdsOf(books) : handleDeleteBook(id)

SpecApp == AppInit /\ [][AppNext]_vars

\* the generator screen left and entered again during a run: up to MaxDetached
\* runs go on next to the one of the mounted component
RunsNext ==
  \/ handleAIGenerate
  \/ \E t \in Themes : setTheme(t)
  \/ \E count \in PageCountChoices : setPageCount(count)
  \/ (Len(detached) <= MaxDetached /\ Len(books) < MaxShelfBooks /\ ClickGenerate)
  \/ ((run.pc \in InFlightPcs => Len(detached) < MaxDetached) /\ homeButton)
  \/ \E reply \in UNION {StoryTextReplies(i) : i \in 1..MaxPageCount} : StoryTextReturns(reply)
  \/ StoryTextThrows
  \/ ImagePromptReturns
  \/ ImageReturns(TRUE)
  \/ CoverPromptReturns
  \/ CoverImageReturns(TRUE)
  \/ \E j \in 1..MaxDetached, ok \in BOOLEAN,
       reply \in UNION {StoryTextReplies(i) : i \in 1..MaxPageCount} :
       DetachedReturns(j, ok, reply)

SpecRuns == AppInit /\ [][RunsNext]_vars

(***************************************************************************)
(* The editor on a book of the bookshelf: a book is opened from Home       *)
(* (App.tsx lines 139-145), taken to the editor (162-164), edited and      *)
(* saved, while an import started on Home may still be reading its file.   *)
(***************************************************************************)
\* App.handleOpenBook, from the card of the j-th book
handleOpenBook(j) ==
  /\ mode = "home"
  /\ j \in 1..Len(books)
  /\ currentBookId' = Get(books[j], "id")
  /\ title' = Get(books[j], "title").v
  /\ coverData' = Get(books[j], "coverData")
  /\ pages' = Get(books[j], "pages").v
  /\ mode' = "view"
  /\ DismissAlert
  /\ ForgetFinishedImport
  /\ UNCHANGED <<books, storage, envVars, genVars, uploadVars, runVars, download, imports,
                 sessionVars, lastGenerate>>

\* App.handleBackToEdit, the viewer's edit button
handleBackToEdit ==
  /\ mode = "view"
  /\ mode' = "edit"
  /\ UNCHANGED <<books, currentBookId, pages, title, coverData, storage, envVars, genVars,
                 uploadVars, runVars, homeVars, sessionVars, lastGenerate>>

\* a second valid book, and the bookshelf files picked in this specification:
\* two different books, one book, and the same book twice
BookW == With(With(BookX, "id", JStr("12")), "title", JStr("W"))
EditorFiles ==
  {ShelfFile(<<BookX, BookW>>), ShelfFile(<<BookW>>), ShelfFile(<<BookX, BookX>>)}
\* the title typed in this specification
EditedTitle == "T"

EditorNext ==
  \/ \E file \in EditorFiles : handleUploadBookshelf(file, "replace")
  \/ UploadBookshelfSettles(TRUE)
  \/ \E j \in 1..MaxShelfBooks : handleOpenBook(j)
  \/ handleBackToEdit
  \/ handleCloseViewer
  \/ setTitle(EditedTitle)
  \/ handleSaveBook
  \/ handleFinish
  \/ handleBackToHome
  \/ \E id \in IdsOf(books) : handleDeleteBook(id)

SpecEditor == AppInit /\ [][EditorNext]_vars

(***************************************************************************)
(* Startup: the App mounts with books = [] and its effect (App.tsx lines   *)
(* 41-44) puts loadBooks() into the state; Home then renders the value.    *)
(***************************************************************************)
NotLoaded == [t |-> "pending"]

\* what localStorage may hold when the App starts: nothing, the empty text, a
\* text that is not JSON, and JSON texts of values that are arrays of books,
\* arrays of other things, or no arrays
StoredCandidates == {BookX, BookY, JNum(1)} \cup InvalidCandidates
StoredArrays ==
  {<<>>} \cup {<<c>> : c \in StoredCandidates}
         \cup {<<c, d>> : c \in {BookX, BookY, JNull}, d \in StoredCandidates}
StoredValues ==
  {JArr(cs) : cs \in StoredArrays}
    \cup {JNull, JNum(5), JStr(""), JStr("x"), JObj([books |-> JArr(<<BookX>>)]), BookX}
StoredItems ==
  {NoItem, EmptyItem, NotJSON} \cup {[kind |-> "json", data |-> v] : v \in StoredValues}

\* Home's list (part_001 lines 239-316) reads book.id, book.coverData.image,
\* book.title, book.pages.length and book.updatedAt of every element
RendersBook(book) ==
  /\ CanRead(book)
  /\ CanRead(Get(book, "coverData"))
  /\ CanRead(Get(book, "pages"))

\* Home renders books.length and, unless it is 0, books.map(...): a value
\* without a map method, or an element it cannot read, throws in the render
HomeRenders(value) ==
  IF IsArray(value) THEN \A j \in 1..Len(value.v) : RendersBook(value.v[j])
  ELSE value = JStr("")

StartupInit ==
  /\ mode = "home"
  /\ storage \in StoredItems
  /\ books = <<>>
  /\ loaded = NotLoaded
  /\ currentBookId = JNull
  /\ pages = <<>>
  /\ title = ""
  /\ coverData = DefaultCover
  /\ now = StartTime
  /\ apiKey = "key"
  /\ randoms = 0
  /\ theme = ""
  /\ pageCount = InitialPageCount
  /\ baseImages = <<>>
  /\ isGenerating = FALSE
  /\ progress = NoProgress
  /\ error = NoError
  /\ readers = <<>>
  /\ uploads = 0
  /\ run = IdleRun
  /\ calls = <<>>
  /\ snapshots = <<>>
  /\ delivered = <<>>
  /\ lastGenerate = "none"
  /\ imp = NoImport
  /\ alertMsg = NoAlert
  /\ download = NoDownload
  /\ imports = 0
  /\ detached = <<>>

\* useEffect(() => { setBooks(loadBooks()); }, []) and the render that follows;
\* books keeps the elements when the value is an array, and the App is gone
\* ("crashed", no error boundary) when the render throws
InitialLoad ==
  /\ loaded = NotLoaded
  /\ loaded' = loadBooks(storage)
  /\ books' = IF IsArray(loaded') THEN loaded'.v ELSE <<>>
  /\ mode' = IF HomeRenders(loaded') THEN "home" ELSE "crashed"
  /\ UNCHANGED <<currentBookId, pages, title, coverData, storage, envVars, genVars,
                 uploadVars, runVars, homeVars, detached, lastGenerate>>

StartupNext ==
  \/ InitialLoad
  \/ (loaded # NotLoaded /\ handleCreateNew)
  \/ \E t \in EditorTitles : setTitle(t)
  \/ handleBackToHome

SpecStartup == StartupInit /\ [][StartupNext]_vars

(***************************************************************************)
(* The reference images alone: uploads of several files at once (the file  *)
(* input is `multiple`, part_001 line 632), whose readers finish one by    *)
(* one, and removals.                                                      *)
(***************************************************************************)
\* at most this many files are picked, over all uploads
MaxUploadFiles == 4
UploadFiles ==
  UNION {[1..n -> {"data:image/png;base64,A", "data:image/png;base64,B"}] :
           n \in 1..MaxUploadFiles}

\* handleImageUpload (part_001 lines 355-372) with up to MaxUploadFiles files
handleImageUploadMany(files) ==
  /\ mode = "ai-generate"
  /\ ~isGenerating
  /\ Len(baseImages) < MaxBaseImages
  /\ uploads + Len(files) <= MaxUploadFiles
  /\ uploads' = uploads + Len(files)
  /\ readers' = IF Len(baseImages) >= MaxBaseImages THEN readers ELSE readers \o files
  /\ lastGenerate' = "none"
  /\ ForgetFinishedRun
  /\ UNCHANGED <<sessionVars, appVars, envVars, genVars, homeVars>>

UploadNext ==
  \/ handleAIGenerate
  \/ onCancel
  \/ \E files \in UploadFiles : handleImageUploadMany(files)
  \/ \E j \in 1..MaxUploadFiles : readerLoadEnd(j)
  \/ \E index \in 1..MaxBaseImages : removeImage(index)

SpecUpload == AppInit /\ [][UploadNext]_vars

(***************************************************************************)
(* Properties of a generation run.                                         *)
(***************************************************************************)
InFlight ==
  run.pc \in {"analyze", "storyText", "imagePrompt", "image", "coverPrompt", "coverImage"}

CallsOf(op) == SelectSeq(calls, LAMBDA c : c.op = op)
PageImageCalls == SelectSeq(calls, LAMBDA c : c.op = "generateImage" /\ c.page <= run.pageCount)
CoverImageCalls == SelectSeq(calls, LAMBDA c : c.op = "generateImage" /\ c.page > run.pageCount)
TextFailed == \E j \in 1..Len(calls) : calls[j].op = "generateStoryText" /\ ~calls[j].ok

\* C1: when story-text generation fails on a page the run fails as a whole:
\* onGenerate is not called, nothing (not even the pages already made) reaches
\* the App, the collection and the storage are as they were when the run
\* started, and an error message is set.
C1_TextFailureFailsRun ==
  TextFailed =>
    /\ run.pc = "failed"
    /\ delivered = <<>>
    /\ error.set
    /\ ~isGenerating
    /\ mode = "ai-generate"
    /\ pages = <<>>
    /\ currentBookId = JNull
    /\ books = run.onGenerateBooks
    /\ storage = NoItem

\* the text of page 3 fails after two pages have been made
C1_Witness ==
  /\ TextFailed
  /\ Len(run.pages) = 2
  /\ Last(calls).page = 3

\* C2: whatever image generations fail, the run is not failed by them and, when
\* it completes, hands over exactly pageCount pages; a page has no image exactly
\* when its image generation failed, and the cover has none when the cover's
\* image generation failed.
C2_ImageFailuresTolerated ==
  /\ run.pc = "failed" =>
       /\ Last(calls).op \in {"generateStoryText", "generateImagePrompt"}
       /\ ~Last(calls).ok
  /\ Len(PageImageCalls) = Len(run.pages)
  /\ \A k \in 1..Len(run.pages) :
       /\ PageImageCalls[k].page = k
       /\ (Get(run.pages[k], "image") = JNull) <=> ~PageImageCalls[k].ok
  /\ run.pc = "done" =>
       /\ Len(delivered) = 1
       /\ delivered[1].pages = run.pages
       /\ Len(delivered[1].pages) = run.pageCount
       /\ ~error.set
       /\ (\E j \in 1..Len(CoverImageCalls) : ~CoverImageCalls[j].ok)
            => Get(delivered[1].coverData, "image") = JNull

\* a completed run in which every image generation failed
C2_Witness ==
  /\ run.pc = "done"
  /\ Len(PageImageCalls) = run.pageCount
  /\ Len(CoverImageCalls) = 1
  /\ \A j \in 1..Len(calls) : calls[j].op = "generateImage" => ~calls[j].ok
  /\ \A k \in 1..Len(delivered[1].pages) : Get(delivered[1].pages[k], "image") = JNull

\* the answers of the text calls that succeeded, in call order
TextsGenerated == CallsOf("generateStoryText")

\* C3: a successful run hands over exactly pageCount pages in creation order:
\* the k-th page carries the text generated for page index k.
C3_PagesInCreationOrder ==
  run.pc = "done" =>
    /\ Len(delivered) = 1
    /\ Len(delivered[1].pages) = run.pageCount
    /\ Len(TextsGenerated) = run.pageCount
    /\ \A k \in 1..run.pageCount :
         /\ TextsGenerated[k].page = k
         /\ TextsGenerated[k].ok
         /\ Get(delivered[1].pages[k], "text") = JStr(TextsGenerated[k].value)

\* a completed run of three pages with three different texts
C3_Witness ==
  /\ run.pc = "done"
  /\ Len(delivered) = 1
  /\ Len(delivered[1].pages) = 3
  /\ \A j, k \in 1..3 :
       j # k => Get(delivered[1].pages[j], "text") # Get(delivered[1].pages[k], "text")

\* C4: within a run the progress snapshots never go down in current, and on
\* completion the last snapshot has current = total = pageCount + 2.
C4_ProgressMonotone ==
  /\ \A j, k \in 1..Len(snapshots) :
       j <= k => snapshots[j].current <= snapshots[k].current
  /\ InFlight \/ run.pc \in {"done", "failed"} => progress = Last(snapshots)
  /\ run.pc = "done" =>
       /\ progress.current = run.pageCount + 2
       /\ progress.total = run.pageCount + 2

\* a completed run that analysed reference images: every kind of snapshot was sent
C4_Witness ==
  /\ run.pc = "done"
  /\ Len(run.baseImages) > 0
  /\ Len(snapshots) = 2 * run.pageCount + 4

\* the descriptions the provider gave, in call order
DescriptionsGiven ==
  LET oks == SelectSeq(calls, LAMBDA c : c.op = "analyzeImage" /\ c.ok)
  IN [j \in 1..Len(oks) |-> oks[j].value]

\* C5: a failed reference-image analysis never aborts the run: the run goes on
\* to the pages with the descriptions that succeeded, none when all failed.
C5_AnalysisFailuresTolerated ==
  /\ (calls # <<>> /\ Last(calls).op = "analyzeImage") =>
       /\ run.pc \in {"analyze", "storyText"}
       /\ isGenerating
       /\ ~error.set
  /\ run.pc = "analyze" => run.descriptions = DescriptionsGiven
  /\ (InFlight /\ run.pc # "analyze") \/ run.pc \in {"done", "failed"} =>
       run.baseImageDescriptions = DescriptionsGiven
  /\ \A j \in 1..Len(calls) :
       calls[j].op = "generateImagePrompt" => Tail(calls[j].arg) = DescriptionsGiven

\* two reference images were sent, both analyses failed, and the run is at page 1
C5_Witness ==
  /\ run.pc = "storyText"
  /\ run.i = 1
  /\ Len(calls) = 2
  /\ \A j \in 1..2 : calls[j].op = "analyzeImage" /\ ~calls[j].ok
  /\ run.baseImageDescriptions = <<>>

\* C6: a theme that is empty after trimming is rejected before any call to the
\* provider: handleGenerate sets an error, does not enter the generating state,
\* issues no call and never calls onGenerate.
C6_EmptyThemeRejected ==
  /\ (lastGenerate # "none" /\ Trim(theme) = "") =>
       /\ lastGenerate \in {"empty theme", "no API key"}
       /\ error.set
       /\ ~isGenerating
       /\ ~InFlight
       /\ delivered = <<>>
  /\ lastGenerate = "empty theme" => Trim(theme) = "" /\ apiKey # ""
  /\ isGenerating => InFlight
  /\ InFlight \/ calls # <<>> \/ delivered # <<>> => Trim(run.theme) # ""

\* handleGenerate has run on a blank theme, with an API key present
C6_Witness ==
  /\ lastGenerate = "empty theme"
  /\ theme = " "
  /\ apiKey # ""
  /\ error.set

\* C7: every page of a successful run has a non-empty text, and an empty answer
\* of the text endpoint fails the run.
C7_PagesHaveText ==
  /\ \A j \in 1..Len(calls) :
       (calls[j].op = "generateStoryText" /\ calls[j].value = "") => ~calls[j].ok
  /\ run.pc = "done" =>
       \A k \in 1..Len(delivered[1].pages) : Get(delivered[1].pages[k], "text") # JStr("")

(***************************************************************************)
(* Properties of import and export.                                        *)
(***************************************************************************)
\* an import has ended and its file could be read
Settled(kind) ==
  /\ imp.pc = "finished"
  /\ imp.kind = kind
  /\ ~(~imp.result.ok /\ imp.result.message = "could not read the file")

\* the candidates of a bookshelf file, when it has a books array
HasCandidates(file) ==
  /\ file.kind = "json"
  /\ file.data.t = "object"
  /\ "books" \in DOMAIN file.data.v
  /\ file.data.v.books.t = "array"
Candidates(file) == file.data.v.books.v

\* the six requirements on a candidate book, as the specification lists them
HasA(c, f, type) == f \in DOMAIN c.v /\ c.v[f].t = type
SpecValid(c) ==
  /\ c.t = "object"
  /\ HasA(c, "id", "string")
  /\ HasA(c, "title", "string")
  /\ "coverData" \in DOMAIN c.v
  /\ HasA(c, "pages", "array")
  /\ HasA(c, "createdAt", "number")
  /\ HasA(c, "updatedAt", "number")

ValidOnes(file) == SelectSeq(Candidates(file), SpecValid)

\* book a is book b, but for its id when b's id is taken
ImportedAs(a, b, taken) ==
  IF b.v.id \in taken
  THEN /\ a.t = "object"
       /\ DOMAIN a.v = DOMAIN b.v
       /\ \A f \in DOMAIN b.v \ {"id"} : a.v[f] = b.v[f]
       /\ a.v.id.t = "string"
       /\ a.v.id # b.v.id
       /\ a.v.id \notin taken
  ELSE a = b

\* the books a merge appended to the existing ones
Appended == SubSeq(imp.result.books, Len(imp.existingBooks) + 1, Len(imp.result.books))

\* C8: a merge import that succeeds yields the existing books followed by the
\* valid books of the file, existing-count + valid-count books in all; an
\* imported book whose id is the id of an existing book bears another id, one
\* that no existing book has, and is otherwise as in the file; the other
\* imported books are as in the file.
C8_MergeRenamesClashes ==
  (Settled("bookshelf") /\ imp.mode = "merge" /\ imp.result.ok) =>
    LET valid == ValidOnes(imp.file)
        existingIds == {imp.existingBooks[j].v.id : j \in 1..Len(imp.existingBooks)}
    IN /\ HasCandidates(imp.file)
       /\ Len(imp.result.books) = Len(imp.existingBooks) + Len(valid)
       /\ imp.result.importedCount = Len(valid)
       /\ SubSeq(imp.result.books, 1, Len(imp.existingBooks)) = imp.existingBooks
       /\ \A j \in 1..Len(valid) : ImportedAs(Appended[j], valid[j], existingIds)
       /\ books = imp.result.books

\* the bookshelf export of a collection of one book was merged into that
\* collection: two books, with two ids
C8_Witness ==
  /\ Settled("bookshelf")
  /\ imp.mode = "merge"
  /\ imp.result.ok
  /\ Len(imp.existingBooks) = 1
  /\ download.kind = "bookshelf"
  /\ imp.file = download.text
  /\ Candidates(imp.file) = imp.existingBooks
  /\ Len(books) = 2
  /\ books[1] = imp.existingBooks[1]
  /\ books[2].v.id # books[1].v.id

\* C9: the file downloadSingleBook wrote for a book, imported by
\* uploadSingleBook into an empty collection, yields a collection of that one
\* book, equal to the original in every field, its id and the order of its
\* pages included.
C9_SingleBookRoundTrip ==
  (/\ Settled("single")
   /\ download.kind = "single"
   /\ imp.file = download.text
   /\ imp.existingBooks = <<>>) =>
    /\ imp.result.ok
    /\ imp.result.books = <<download.book>>
    /\ imp.result.importedBook = download.book
    /\ books = <<download.book>>

\* a book of two pages was exported, the collection emptied, and the file
\* imported
C9_Witness ==
  /\ Settled("single")
  /\ download.kind = "single"
  /\ imp.file = download.text
  /\ imp.existingBooks = <<>>
  /\ Len(download.book.v.pages.v) = 2
  /\ books = <<download.book>>

\* what a bookshelf import that kept the valid candidates, in file order, gives
KeepsValidOnes ==
  LET valid == ValidOnes(imp.file)
  IN /\ imp.result.ok
     /\ imp.result.importedCount = Len(valid)
     /\ alertMsg = "imported " \o ToString(Len(valid)) \o " books"
     /\ books = imp.result.books
     /\ IF imp.mode = "replace"
        THEN imp.result.books = valid
        ELSE /\ Len(Appended) = Len(valid)
             /\ \A j \in 1..Len(valid) :
                  ImportedAs(Appended[j], valid[j],
                             {imp.existingBooks[k].v.id : k \in 1..Len(imp.existingBooks)})

\* the import was rejected: an error alert, and no call of onUpdateBooks
Rejected ==
  /\ ~imp.result.ok
  /\ alertMsg = ImportFailedAlert(imp.result.message)

\* the candidate of a single-book file that has a book property
HasBook(file) ==
  /\ file.kind = "json"
  /\ file.data.t = "object"
  /\ "book" \in DOMAIN file.data.v
  /\ file.data.v.book.t \in {"object", "array"}

\* C10 (as stated): in a bookshelf import the candidates that fail the six
\* requirements are discarded without an error and the valid ones imported in
\* file order.
C10_InvalidSilentlyDiscarded ==
  (/\ Settled("bookshelf")
   /\ HasCandidates(imp.file)
   /\ \E j \in 1..Len(Candidates(imp.file)) : ~SpecValid(Candidates(imp.file)[j]))
    => KeepsValidOnes

\* C10 (amended): a candidate is accepted exactly when it meets the six
\* requirements.  A bookshelf import with at least one valid candidate imports
\* the valid ones in file order and drops the others without an error; one
\* whose candidates all fail is rejected with an error.  A single-book import
\* is rejected with an error when its candidate fails, and imports it otherwise.
C10_ImportValidation ==
  /\ (Settled("bookshelf") /\ HasCandidates(imp.file)) =>
       IF ValidOnes(imp.file) # <<>> THEN KeepsValidOnes ELSE Rejected
  /\ (Settled("single") /\ HasBook(imp.file)) =>
       IF SpecValid(imp.file.data.v.book)
       THEN /\ imp.result.ok
            /\ ImportedAs(imp.result.importedBook, imp.file.data.v.book,
                          {imp.existingBooks[k].v.id : k \in 1..Len(imp.existingBooks)})
            /\ imp.result.books = <<imp.result.importedBook>> \o imp.existingBooks
       ELSE Rejected

\* a bookshelf file of a valid book followed by one without updatedAt was
\* imported: one book, no error
C10_Witness ==
  /\ Settled("bookshelf")
  /\ HasCandidates(imp.file)
  /\ Candidates(imp.file) = <<BookX, Without(BookX, "updatedAt")>>
  /\ imp.mode = "replace"
  /\ imp.result.ok
  /\ books = <<BookX>>

\* C11: after a bookshelf import in replace mode that succeeds, the collection
\* is exactly the valid books of the file, in file order: no book of the
\* previous collection is kept unless the file holds it.
C11_ReplaceDiscardsExisting ==
  (Settled("bookshelf") /\ imp.mode = "replace" /\ imp.result.ok) =>
    /\ HasCandidates(imp.file)
    /\ imp.result.books = ValidOnes(imp.file)
    /\ imp.result.importedCount = Len(ValidOnes(imp.file))
    /\ books = ValidOnes(imp.file)
    /\ \A j \in 1..Len(imp.existingBooks) :
         (\A k \in 1..Len(Candidates(imp.file)) :
            Candidates(imp.file)[k] # imp.existingBooks[j])
           => \A m \in 1..Len(books) : books[m] # imp.existingBooks[j]

\* a collection of one book was replaced by a file of two other books
C11_Witness ==
  /\ Settled("bookshelf")
  /\ imp.mode = "replace"
  /\ imp.result.ok
  /\ Len(imp.existingBooks) = 1
  /\ Len(books) = 2
  /\ \A m \in 1..2 : books[m].v.id # imp.existingBooks[1].v.id

\* an import handler ends in its catch block
ImportFails ==
  /\ imp.pc = "reading"
  /\ imp'.pc = "finished"
  /\ ~imp'.result.ok

\* C12: an import that fails (unreadable or unparseable file, no books or book
\* field, no valid book, invalid single book) leaves the in-memory collection
\* and the stored collection as they were and shows the failure in an alert.
C12_FailedImportChangesNothing ==
  [][ImportFails =>
       /\ books' = books
       /\ storage' = storage
       /\ alertMsg' = ImportFailedAlert(imp'.result.message)
       /\ alertMsg' # NoAlert]_vars

\* a single-book import of a file without a valid book failed on a bookshelf
\* of one book, which is still there
C12_Witness ==
  /\ imp.pc = "finished"
  /\ imp.kind = "single"
  /\ ~imp.result.ok
  /\ imp.result.message = "not a book"
  /\ Len(books) = 1
  /\ books = imp.existingBooks
  /\ alertMsg = ImportFailedAlert("not a book")

\* C13: no two books of the collection have the same id.
C13_IdsUnique ==
  \A j, k \in 1..Len(books) : j # k => books[j].v.id # books[k].v.id

\* C14: every book of the collection has updatedAt >= createdAt.
C14_UpdatedNotBeforeCreated ==
  \A j \in 1..Len(books) : books[j].v.updatedAt.v >= books[j].v.createdAt.v

(***************************************************************************)
(* Properties of the App across its screens.                               *)
(***************************************************************************)
Range(seq) == {seq[j] : j \in 1..Len(seq)}

\* the step is an explicit delete, or a save in the editor
DeleteOrSave ==
  \/ \E id \in IdsOf(books) : handleDeleteBook(id)
  \/ handleSaveBook
  \/ handleFinish

\* C15: a book leaves the collection only by an explicit delete (or a save
\* that rewrites it), and the completion of a run adds its own book in front
\* and brings no other book into the collection: one deleted while the run was
\* in flight does not come back.
C15_DestroyedOnlyByDelete ==
  [][~DeleteOrSave =>
       /\ \A j \in 1..Len(books) : books[j] \in Range(books')
       /\ \A k \in 2..Len(books') : books'[k] \in Range(books)]_vars

\* the handleGenerate invocations in flight, mounted or not
ActiveRuns == (IF run.pc \in InFlightPcs THEN 1 ELSE 0) + Len(detached)

\* C16: at most one generation run is in flight at any time.
C16_OneRunAtATime == ActiveRuns <= 1

(***************************************************************************)
(* Termination of a generation run.                                        *)
(***************************************************************************)
RunEnded == run.pc \in {"done", "failed"}

\* C17: a started run ends, provided every call of the provider settles: it
\* ends either done (onGenerate called exactly once, no error set) or failed
\* (error set, onGenerate not called), and isGenerating is false once it ended.
C17_RunEnds ==
  /\ [](run.pc = "done" => Len(delivered) = 1 /\ ~error.set /\ ~isGenerating)
  /\ [](run.pc = "failed" => delivered = <<>> /\ error.set /\ ~isGenerating)
  /\ (InFlight ~> RunEnded)

C17_Witness ==
  /\ run.pc = "failed"
  /\ Len(calls) > 1
  /\ error.set
  /\ ~isGenerating

(***************************************************************************)
(* Persistence of the collection.                                          *)
(***************************************************************************)
\* what the App would show after a reload
Reloaded == loadBooks(storage)

Mutates == books' # books \/ storage' # storage

BookList(value) == IsArray(value) /\ \A j \in 1..Len(value.v) : SpecValid(value.v[j])
HoldsBookList(item) == item.kind = "json" /\ BookList(item.data)

\* C19: what loadBooks returns at startup is always a list of books, and it
\* is the empty list whenever the stored value is absent, unparseable or not
\* a serialized array of valid books.
C19_LoadYieldsBookList ==
  loaded # NotLoaded =>
    /\ BookList(loaded)
    /\ ~HoldsBookList(storage) => loaded = JArr(<<>>)

(***************************************************************************)
(* What the user is told about a write that failed.                        *)
(***************************************************************************)
\* C20: the user is told that the book was saved only when the storage holds
\* the collection: a save whose write failed does not announce success.
C20_SavedMeansStored ==
  [][handleSaveBook => (alertMsg' = SavedAlert => loadBooks(storage') = JArr(books'))]_vars

(***************************************************************************)
(* The book of a completed run.                                            *)
(***************************************************************************)
\* the step in which the mounted generator's run calls onGenerate
MountedCompletes == run.pc \in InFlightPcs /\ run'.pc = "done"

\* the last call of the run gave the cover image, or none
CoverOfLastCall ==
  LET c == calls'[Len(calls')]
  IN JObj([image |-> IF c.op = "generateImage" /\ c.ok THEN JStr(c.value) ELSE JNull,
           imageScale |-> JNum(1)])

\* onGenerate is called once with (theme, cover, pages) and the App puts one
\* new book of exactly these in front of the collection and makes it current
Assembled ==
  LET b == books'[1]
      result == delivered'[Len(delivered')]
  IN /\ delivered' = Append(delivered, result)
     /\ result = [title |-> run.theme, coverData |-> CoverOfLastCall, pages |-> run.pages]
     /\ books' = <<b>> \o books
     /\ Get(b, "title") = JStr(run.theme)
     /\ Get(b, "coverData") = result.coverData
     /\ Get(b, "pages") = JArr(result.pages)
     /\ Get(b, "createdAt") = Get(b, "updatedAt")
     /\ Get(b, "createdAt") = JNum(now)
     /\ currentBookId' = Get(b, "id")
     /\ title' = run.theme /\ coverData' = result.coverData /\ pages' = result.pages
     /\ mode' = "edit"

TextCalls == CallsOf("generateStoryText")
ValuesOf(cs) == [j \in 1..Len(cs) |-> cs[j].value]

\* C22: the text call for page i is given exactly the texts of pages 1..i-1
\* of this run, in page order (none for page 1); this holds of the calls that
\* have returned and of the one in flight.
C22_ContextAccumulates ==
  /\ \A j \in 1..Len(TextCalls) :
       /\ TextCalls[j].page = j
       /\ TextCalls[j].arg = ValuesOf(SubSeq(TextCalls, 1, j - 1))
  /\ run.pc = "storyText" =>
       /\ run.i = Len(TextCalls) + 1
       /\ run.storyTexts = ValuesOf(TextCalls)

C22_Witness ==
  /\ Len(TextCalls) = MaxPageCount
  /\ TextCalls[MaxPageCount].arg = <<"text1", "text2">>
  /\ TextCalls[MaxPageCount].ok

\* the calls a run of r issues if none of them ends it, in the order of the
\* claim: the analyses of the reference images that are data URLs, then text,
\* image prompt and image of each page, then the cover's prompt and image
PageOps == <<"generateStoryText", "generateImagePrompt", "generateImage">>
Slot(op, page) == [op |-> op, page |-> page]
Schedule(r) ==
  SelectSeq([k \in 1..Len(r.baseImages) |-> Slot("analyzeImage", k)],
            LAMBDA e : MatchesDataUrl(r.baseImages[e.page]))
    \o [m \in 1..(3 * r.pageCount) |-> Slot(PageOps[((m - 1) % 3) + 1], ((m - 1) \div 3) + 1)]
    \o <<Slot("generateImagePrompt", r.pageCount + 1), Slot("generateImage", r.pageCount + 1)>>

\* the call the run is awaiting
Outstanding ==
  CASE run.pc = "analyze" -> <<Slot("analyzeImage", run.k)>>
    [] run.pc = "storyText" -> <<Slot("generateStoryText", run.i)>>
    [] run.pc \in {"imagePrompt", "coverPrompt"} -> <<Slot("generateImagePrompt", run.i)>>
    [] run.pc \in {"image", "coverImage"} -> <<Slot("generateImage", run.i)>>
    [] OTHER -> <<>>

\* the calls issued so far: those that have settled, then the outstanding one
Issued == [j \in 1..Len(calls) |-> Slot(calls[j].op, calls[j].page)] \o Outstanding

\* C23: the calls of a run are issued one after the other in the order analyses,
\* then text, image prompt, image of page 1..N, then cover prompt, cover image:
\* what has been issued is always a beginning of that schedule, with at most
\* one call outstanding, and the cover starts only when all N pages are recorded.
C23_StrictlySequential ==
  run.pc # "idle" =>
    /\ Len(Issued) <= Len(Schedule(run))
    /\ Issued = SubSeq(Schedule(run), 1, Len(Issued))
    /\ Len(Outstanding) <= 1
    /\ (\E j \in 1..Len(Issued) : Issued[j].page > run.pageCount) =>
         Len(run.pages) = run.pageCount

C23_Witness ==
  /\ run.pc = "done"
  /\ Len(calls) = 3 * MaxPageCount + 3
  /\ calls[1].op = "analyzeImage"
  /\ ~calls[Len(calls)].ok

(***************************************************************************)
(* Progress snapshots.                                                     *)
(***************************************************************************)
\* the snapshot that describes the step the run is in
SnapshotOfStep ==
  CASE run.pc = "analyze" -> AnalyzingProgress(run)
    [] run.pc = "storyText" -> StoryProgress(run, run.i)
    [] run.pc \in {"imagePrompt", "image"} -> IllustrationProgress(run, run.i)
    [] run.pc \in {"coverPrompt", "coverImage"} -> CoverProgress(run)
    [] run.pc = "done" -> DoneProgress(run)
    [] OTHER -> NoProgress

\* C24: whenever a call of a step is outstanding, and at Done, the snapshot
\* describing that step is the last one emitted, so it was emitted before the
\* call was issued; the very first snapshot of a run is the preparing one.
C24_SnapshotBeforeStep ==
  (InFlight \/ run.pc = "done") =>
    /\ snapshots # <<>>
    /\ snapshots[1] = PreparingProgress(run)
    /\ Last(snapshots) = SnapshotOfStep
    /\ progress = SnapshotOfStep

C24_Witness ==
  /\ run.pc = "image"
  /\ run.i = 2
  /\ Len(run.baseImages) > 0
  /\ Last(snapshots) = IllustrationProgress(run, 2)
  /\ snapshots[2] = AnalyzingProgress(run)

\* C25: every snapshot of a run, successful or not, has total = pageCount + 2
\* > 0 and 0 <= current <= total; the text and the illustration snapshots of
\* page i have current = i and the cover snapshot has current = pageCount + 1.
C25_SnapshotsWellFormed ==
  \A j \in 1..Len(snapshots) :
    LET snap == snapshots[j]
    IN /\ snap.total = run.pageCount + 2
       /\ snap.total > 0
       /\ 0 <= snap.current /\ snap.current <= snap.total
       /\ \A i \in 1..run.pageCount :
            snap.message \in {StoryProgress(run, i).message,
                              IllustrationProgress(run, i).message} => snap.current = i
       /\ snap.message = CoverProgress(run).message => snap.current = run.pageCount + 1

C25_Witness ==
  /\ run.pc = "failed"
  /\ Last(snapshots) = IllustrationProgress(run, 2)
  /\ \E j \in 1..Len(snapshots) : snapshots[j] = StoryProgress(run, 1)

(***************************************************************************)
(* Failures of the image prompt.                                           *)
(***************************************************************************)
PromptFailures == SelectSeq(calls, LAMBDA c : c.op = "generateImagePrompt" /\ ~c.ok)
PagePromptFailed == \E j \in 1..Len(PromptFailures) : PromptFailures[j].page <= run.pageCount
CoverPromptFailed == \E j \in 1..Len(PromptFailures) : PromptFailures[j].page > run.pageCount

\* C26: a failed image-prompt call of a page ends the run without a book and
\* with an error, while a failed prompt call of the cover is tolerated: the
\* run completes with all its pages and a cover without image, and no image
\* call is made for the cover.
C26_PromptFailureAsymmetry ==
  /\ PagePromptFailed =>
       /\ run.pc = "failed"
       /\ delivered = <<>>
       /\ books = <<>>
       /\ error.set
       /\ Last(calls).op = "generateImagePrompt"
  /\ CoverPromptFailed =>
       /\ run.pc = "done"
       /\ ~error.set
       /\ Len(delivered) = 1
       /\ Get(delivered[1].coverData, "image") = JNull
       /\ Len(delivered[1].pages) = run.pageCount
       /\ Len(books) = 1
       /\ CoverImageCalls = <<>>

C26_Witness ==
  /\ CoverPromptFailed
  /\ run.pc = "done"
  /\ Get(coverData, "image") = JNull
  /\ \A k \in 1..Len(pages) : Get(pages[k], "image") # JNull

(***************************************************************************)
(* Two runs at once.                                                       *)
(***************************************************************************)
\* the locals of an invocation hold only what its own calls gave: the texts
\* are replies for its pages, each page carries the text of its index and the
\* image made from it or none, each description is one of its own images
OwnValues(r) ==
  /\ Len(r.pages) <= Len(r.storyTexts)
  /\ Len(r.storyTexts) <= r.pageCount
  /\ \A k \in 1..Len(r.storyTexts) : r.storyTexts[k] \in StoryTextReplies(k)
  /\ \A k \in 1..Len(r.pages) :
       /\ Get(r.pages[k], "text") = JStr(r.storyTexts[k])
       /\ Get(r.pages[k], "image") \in
            {JNull, JStr(ImageReply(ImagePromptReply(r.storyTexts[k])))}
  /\ \A d \in Range(r.descriptions) :
       \E k \in 1..Len(r.baseImages) : d = DescriptionReply(r.baseImages[k])

\* a step in which the provider answers the mounted run
MountedAnswers == calls' # calls /\ calls' # <<>>

\* after an answer to the j-th unmounted run the mounted run has the locals it
\* had, in its component or, when that was unmounted by the step, detached
OthersUntouched(j) ==
  /\ calls' \in {calls, <<>>}
  /\ run.pc \in InFlightPcs => (run' = run \/ run \in Range(detached'))
  /\ \A m \in (1..Len(detached)) \ {j} : detached[m] \in Range(detached')

\* C27: two runs in flight at once do not touch each other's pages, texts
\* and descriptions: an answer to one run leaves the locals of the other as
\* they were, and every run's locals hold only values of its own calls.
C27_RunsIndependent ==
  /\ [](OwnValues(run) /\ \A j \in 1..Len(detached) : OwnValues(detached[j]))
  /\ [][/\ MountedAnswers => detached' = detached
        /\ \A j \in 1..MaxDetached, ok \in BOOLEAN,
              reply \in UNION {StoryTextReplies(i) : i \in 1..MaxPageCount} :
             DetachedReturns(j, ok, reply) => OthersUntouched(j)]_vars

C27_Witness ==
  /\ Len(detached) = 1
  /\ run.pc = "imagePrompt"
  /\ detached[1].pc = "image"
  /\ Len(run.storyTexts) = 2
  /\ Len(detached[1].storyTexts) = 2
  /\ run.storyTexts # detached[1].storyTexts

(***************************************************************************)
(* Reference analysis.                                                     *)
(***************************************************************************)
AnalyzeCalls == CallsOf("analyzeImage")
AnalysisOver == run.pc \notin {"idle", "analyze"}
ImageIndexes(r) == [k \in 1..Len(r.baseImages) |-> k]
DataUrlIndexes(r) == SelectSeq(ImageIndexes(r), LAMBDA k : MatchesDataUrl(r.baseImages[k]))

\* the analyze calls are those of the images at the indexes ks, in that order,
\* and the descriptions are exactly those of the calls that succeeded
AnalyzedExactly(ks) ==
  /\ Len(AnalyzeCalls) = Len(ks)
  /\ \A j \in 1..Len(ks) :
       /\ AnalyzeCalls[j].page = ks[j]
       /\ AnalyzeCalls[j].arg = <<run.baseImages[ks[j]]>>
  /\ run.baseImageDescriptions = DescriptionsGiven
  /\ Len(run.baseImageDescriptions) <= Len(run.baseImages)

\* C28 (as stated): the analysis calls the provider once per reference image,
\* in input order, and returns the descriptions of exactly the images whose
\* analysis succeeded, in input order.
C28_AnalyzedOncePerImage == AnalysisOver => AnalyzedExactly(ImageIndexes(run))

\* C28 (amended): the analysis calls the provider once per reference image
\* that is a base64 data URL, in input order, skips the other images without
\* a call, and returns the descriptions of exactly the calls that succeeded.
C28_AnalyzedOncePerDataUrl == AnalysisOver => AnalyzedExactly(DataUrlIndexes(run))

C28_Witness ==
  /\ AnalysisOver
  /\ Len(run.baseImages) = 2
  /\ ~MatchesDataUrl(run.baseImages[1])
  /\ Len(AnalyzeCalls) = 1
  /\ AnalyzeCalls[1].page = 2
  /\ Len(run.baseImageDescriptions) = 1

(***************************************************************************)
(* Attempts.                                                               *)
(***************************************************************************)
IssuedFor(op, page) == SelectSeq(Issued, LAMBDA e : e.op = op /\ e.page = page)
IssuedOf(op) == SelectSeq(Issued, LAMBDA e : e.op = op)

\* C29: no step is attempted twice: a run issues at most one text call per
\* page, at most one image call per page and one for the cover, hence at most
\* pageCount text calls and pageCount + 1 image calls, and a page whose image
\* call failed is recorded without image.
C29_NoRetry ==
  /\ \A i \in 1..(run.pageCount + 1) :
       /\ Len(IssuedFor("generateStoryText", i)) <= 1
       /\ Len(IssuedFor("generateImage", i)) <= 1
  /\ Len(IssuedOf("generateStoryText")) <= run.pageCount
  /\ Len(IssuedOf("generateImage")) <= run.pageCount + 1
  /\ \A j \in 1..Len(PageImageCalls) :
       LET c == PageImageCalls[j]
       IN /\ c.page <= Len(run.pages)
          /\ Get(run.pages[c.page], "image") = (IF c.ok THEN JStr(c.value) ELSE JNull)
  /\ run.pc = "done" /\ CoverImageCalls # <<>> =>
       Get(delivered[1].coverData, "image") =
         (IF CoverImageCalls[1].ok THEN JStr(CoverImageCalls[1].value) ELSE JNull)

C29_Witness ==
  /\ run.pc = "done"
  /\ Len(IssuedOf("generateStoryText")) = run.pageCount
  /\ Len(IssuedOf("generateImage")) = run.pageCount + 1
  /\ \A j \in 1..Len(PageImageCalls) : ~PageImageCalls[j].ok
  /\ ~CoverImageCalls[1].ok

(***************************************************************************)
(* The reference images.                                                   *)
(***************************************************************************)
ReaderEnds == \E j \in 1..MaxUploadFiles : readerLoadEnd(j)

\* C30: baseImages never holds more than three images, and the end of a
\* file read adds its image and removes none of those already present.
C30_ThreeImagesNoneLost ==
  /\ [](Len(baseImages) <= MaxBaseImages)
  /\ [][ReaderEnds => /\ Len(baseImages') = Len(baseImages) + 1
                      /\ SubSeq(baseImages', 1, Len(baseImages)) = baseImages]_vars

(***************************************************************************)
(* The pages of the book in the editor.                                    *)
(***************************************************************************)
MaxEditorPages == 2

\* App.handleAddPage, lines 78-86
handleAddPage(image, imageScale, text) ==
  /\ mode = "edit"
  /\ Len(pages) < MaxEditorPages
  /\ LET newPage == JObj([id |-> JStr(DateNowToString), image |-> image,
                          imageScale |-> JNum(imageScale), text |-> JStr(text)])
     IN pages' = Append(pages, newPage)
  /\ DismissAlert
  /\ UNCHANGED <<mode, books, currentBookId, title, coverData, storage, envVars, genVars,
                 uploadVars, runVars, imp, download, imports, sessionVars, lastGenerate>>

\* App.handleDeletePage, lines 88-90
handleDeletePage(id) ==
  /\ mode = "edit"
  /\ pages' = SelectSeq(pages, LAMBDA p : Get(p, "id") # JStr(id))
  /\ DismissAlert
  /\ UNCHANGED <<mode, books, currentBookId, title, coverData, storage, envVars, genVars,
                 uploadVars, runVars, imp, download, imports, sessionVars, lastGenerate>>

\* App.handleUpdatePage, lines 92-94, with updates = { text }
handleUpdatePage(id, text) ==
  /\ mode = "edit"
  /\ pages' = [k \in 1..Len(pages) |->
                 IF Get(pages[k], "id") = JStr(id) THEN With(pages[k], "text", JStr(text))
                                                  ELSE pages[k]]
  /\ DismissAlert
  /\ UNCHANGED <<mode, books, currentBookId, title, coverData, storage, envVars, genVars,
                 uploadVars, runVars, imp, download, imports, sessionVars, lastGenerate>>

\* App.handleReorderPages, lines 96-98
handleReorderPages(newPages) ==
  /\ mode = "edit"
  /\ pages' = newPages
  /\ DismissAlert
  /\ UNCHANGED <<mode, books, currentBookId, title, coverData, storage, envVars, genVars,
                 uploadVars, runVars, imp, download, imports, sessionVars, lastGenerate>>

\* the orders a drag of the page list can produce
Reorderings(ps) == {[k \in 1..Len(ps) |-> ps[f[k]]] : f \in Permutations(1..Len(ps))}
PageIdsOf(ps) == {Get(ps[k], "id").v : k \in 1..Len(ps)}

\* a bookshelf file whose only book has two pages with the same id
BookD == With(BookW, "pages", JArr(<<PageOf("101", "once"), PageOf("101", "the end")>>))

PagesNext ==
  \/ Tick
  \/ handleUploadBookshelf(ShelfFile(<<BookD>>), "replace")
  \/ UploadBookshelfSettles(TRUE)
  \/ handleOpenBook(1)
  \/ handleBackToEdit
  \/ handleCreateNew
  \/ handleAddPage(JNull, 1, "a")
  \/ \E id \in PageIdsOf(pages) : handleDeletePage(id)
  \/ \E id \in PageIdsOf(pages) : handleUpdatePage(id, "z")
  \/ \E newPages \in Reorderings(pages) : handleReorderPages(newPages)
  \/ handleSaveBook

SpecPages == AppInit /\ [][PagesNext]_vars

(***************************************************************************)
(* Saving a book that is already in the collection.                        *)
(***************************************************************************)
\* Save or Finish pressed while currentBookId is set
SaveOver == (handleSaveBook \/ handleFinish) /\ ~Falsy(currentBookId)
IsCurrent(book) == Get(book, "id") = currentBookId
HoldsEditorState(book) ==
  /\ Get(book, "title") = JStr(title)
  /\ Get(book, "coverData") = coverData
  /\ Get(book, "pages") = JArr(pages)

\* C31: a save of a book of the collection rewrites that book in place: the
\* collection keeps its size and order, the book keeps id and createdAt and
\* gets the editor's title, cover and pages and the save time as updatedAt,
\* and every other book is as it was.
C31_SaveUpdatesInPlace ==
  [][(SaveOver /\ \E j \in 1..Len(books) : IsCurrent(books[j])) =>
       /\ Len(books') = Len(books)
       /\ \E j \in 1..Len(books) :
            /\ IsCurrent(books[j])
            /\ Get(books'[j], "id") = Get(books[j], "id")
            /\ Get(books'[j], "createdAt") = Get(books[j], "createdAt")
            /\ HoldsEditorState(books'[j])
            /\ Get(books'[j], "updatedAt") = JNum(now)
            /\ \A k \in (1..Len(books)) \ {j} : books'[k] = books[k]]_vars

\* C33: whenever Save or Finish runs with currentBookId set, the collection
\* holds a book with that id, and after the operation the collection that is
\* written holds a book with that id and the editor's title, cover and pages.
C33_SaveIsEffective ==
  [][SaveOver =>
       /\ \E j \in 1..Len(books) : IsCurrent(books[j])
       /\ \E j \in 1..Len(books') : IsCurrent(books'[j]) /\ HoldsEditorState(books'[j])]_vars

(***************************************************************************)
(* Page ids.                                                               *)
(***************************************************************************)
DistinctPageIds(ps) == \A k, l \in 1..Len(ps) : Get(ps[k], "id") = Get(ps[l], "id") => k = l

\* C32: no two pages of a book share an id, in the editor after any sequence
\* of add, delete, update and reorder operations and in every saved book, so
\* that a delete or update by id touches exactly one page.
C32_PageIdsUnique ==
  /\ DistinctPageIds(pages)
  /\ \A j \in 1..Len(books) : DistinctPageIds(Get(books[j], "pages").v)

====
